---- MODULE Spec2Model ----
(***************************************************************************)
(* JobSeekAI: the BDJobs scraper (scraper.py) and the analytics helpers of *)
(* the dashboard (app/utils.py) as state machines.                         *)
(*                                                                         *)
(* Python strings are sequences of one-character strings, so that          *)
(* lower(), strip(), concatenation and substring search are computed and   *)
(* not assumed.  None (and an absent dict key) is the value Null.          *)
(***************************************************************************)
EXTENDS Integers, Sequences, FiniteSets, TLC

VARIABLES
  sheet,          \* the worksheet: a sequence of rows, row 1 the header
  upstream,       \* what the listings API holds, per category, in order
  pc,             \* where main() is / which step of a helper has run
  run,            \* number of completed scraper runs
  cat,            \* index into CATEGORIES of the next category to fetch
  fetched,        \* every raw job object fetch_jobs returned in this run
  all_jobs,       \* main(): all_jobs, as references (indices) into fetched
  seen_ids,       \* main(): seen_ids
  existing_keys,  \* main(): existing_keys
  new_rows,       \* main(): new_rows (parsed dicts)
  new_src,        \* for each entry of new_rows, the job object it came from
  prev_jobs,      \* the raw jobs the previous run processed
  inp,            \* arguments of the helper under study (app/utils.py)
  out             \* its return value

vars == <<sheet, upstream, pc, run, cat, fetched, all_jobs, seen_ids,
          existing_keys, new_rows, new_src, prev_jobs, inp, out>>

scraperVars == <<sheet, upstream, run, cat, fetched, all_jobs, seen_ids,
                 existing_keys, new_rows, new_src, prev_jobs>>

(***************************************************************************)
(* Strings                                                                 *)
(***************************************************************************)
Null == <<"\\null">>

UpperCase ==
  <<"A", "B", "C", "D", "E", "F", "G", "H", "I", "J", "K", "L", "M",
    "N", "O", "P", "Q", "R", "S", "T", "U", "V", "W", "X", "Y", "Z">>

LowerCase ==
  <<"a", "b", "c", "d", "e", "f", "g", "h", "i", "j", "k", "l", "m",
    "n", "o", "p", "q", "r", "s", "t", "u", "v", "w", "x", "y", "z">>

Digits == <<"0", "1", "2", "3", "4", "5", "6", "7", "8", "9">>

Whitespace == {" ", "\t", "\n", "\r"}

\* str.lower() on one character
LowerChar(c) ==
  IF \E k \in DOMAIN UpperCase : UpperCase[k] = c
    THEN LowerCase[CHOOSE k \in DOMAIN UpperCase : UpperCase[k] = c]
    ELSE c

\* str.lower()
Lower(s) == [k \in DOMAIN s |-> LowerChar(s[k])]

\* str.strip(): leading and trailing whitespace removed
Strip(s) ==
  LET keep == {k \in DOMAIN s : s[k] \notin Whitespace}
  IN  IF keep = {} THEN <<>>
      ELSE LET lo == CHOOSE k \in keep : \A m \in keep : k <= m
               hi == CHOOSE k \in keep : \A m \in keep : k >= m
           IN  SubSeq(s, lo, hi)

\* `kw in text`
Contains(text, kw) ==
  \E k \in 0 .. (Len(text) - Len(kw)) : SubSeq(text, k + 1, k + Len(kw)) = kw

\* str(job.get(field, "") or "").strip()
GetStr(v) == Strip(IF v = Null THEN <<>> ELSE v)

(***************************************************************************)
(* scraper.py: industry detection                                          *)
(***************************************************************************)
INDUSTRY_KEYWORDS ==
  <<
    [industry |-> <<"I", "T", "/", "T", "e", "l", "e", "c", "o", "m", "m", "u", "n", "i", "c", "a", "t", "i", "o", "n">>,
     keywords |-> <<
       <<"s", "o", "f", "t", "w", "a", "r", "e">>,
       <<"d", "e", "v", "e", "l", "o", "p", "e", "r">>,
       <<"p", "r", "o", "g", "r", "a", "m", "m", "e", "r">>,
       <<"I", "T", " ">>,
       <<"f", "l", "u", "t", "t", "e", "r">>,
       <<"r", "e", "a", "c", "t">>,
       <<"p", "y", "t", "h", "o", "n">>,
       <<"j", "a", "v", "a">>,
       <<"f", "r", "o", "n", "t", "e", "n", "d">>,
       <<"b", "a", "c", "k", "e", "n", "d">>,
       <<"f", "u", "l", "l", " ", "s", "t", "a", "c", "k">>,
       <<"f", "u", "l", "l", "s", "t", "a", "c", "k">>,
       <<"d", "e", "v", "o", "p", "s">>,
       <<"d", "a", "t", "a", " ", "e", "n", "g", "i", "n", "e", "e", "r">>,
       <<"d", "a", "t", "a", " ", "s", "c", "i", "e", "n">>,
       <<"m", "a", "c", "h", "i", "n", "e", " ", "l", "e", "a", "r", "n", "i", "n", "g">>,
       <<"A", "I", " ">>,
       <<"c", "l", "o", "u", "d">>,
       <<"n", "e", "t", "w", "o", "r", "k">>,
       <<"s", "y", "s", "t", "e", "m", " ", "a", "d", "m", "i", "n">>,
       <<"c", "y", "b", "e", "r">>,
       <<"w", "e", "b", " ">>,
       <<"a", "p", "p", " ">>,
       <<"m", "e", "r", "n">>,
       <<"n", "o", "d", "e">>,
       <<"d", "a", "t", "a", "b", "a", "s", "e">>,
       <<"t", "e", "l", "e", "c", "o", "m">>
     >>],
    [industry |-> <<"B", "a", "n", "k", "/", "F", "i", "n", "a", "n", "c", "i", "a", "l">>,
     keywords |-> <<
       <<"b", "a", "n", "k">>,
       <<"b", "a", "n", "k", "i", "n", "g">>,
       <<"l", "o", "a", "n">>,
       <<"c", "r", "e", "d", "i", "t">>,
       <<"f", "i", "n", "a", "n", "c", "e">>,
       <<"t", "r", "e", "a", "s", "u", "r", "y">>,
       <<"i", "n", "v", "e", "s", "t", "m", "e", "n", "t">>,
       <<"i", "n", "s", "u", "r", "a", "n", "c", "e">>,
       <<"m", "i", "c", "r", "o", "f", "i", "n", "a", "n", "c", "e">>,
       <<"a", "c", "c", "o", "u", "n", "t", "s">>,
       <<"a", "c", "c", "o", "u", "n", "t", "i", "n", "g">>,
       <<"a", "u", "d", "i", "t">>,
       <<"t", "a", "x">>,
       <<"v", "a", "t">>,
       <<"c", "a", "s", "h", "i", "e", "r">>
     >>],
    [industry |-> <<"E", "n", "g", "i", "n", "e", "e", "r", "i", "n", "g">>,
     keywords |-> <<
       <<"e", "n", "g", "i", "n", "e", "e", "r">>,
       <<"c", "i", "v", "i", "l">>,
       <<"m", "e", "c", "h", "a", "n", "i", "c", "a", "l">>,
       <<"e", "l", "e", "c", "t", "r", "i", "c", "a", "l">>,
       <<"a", "r", "c", "h", "i", "t", "e", "c", "t">>,
       <<"c", "o", "n", "s", "t", "r", "u", "c", "t", "i", "o", "n">>,
       <<"s", "t", "r", "u", "c", "t", "u", "r", "a", "l">>,
       <<"s", "u", "r", "v", "e", "y", "o", "r">>,
       <<"a", "u", "t", "o", "c", "a", "d">>,
       <<"p", "r", "o", "j", "e", "c", "t", " ", "e", "n", "g">>,
       <<"s", "i", "t", "e", " ", "e", "n", "g">>,
       <<"d", "e", "s", "i", "g", "n", " ", "e", "n", "g">>
     >>],
    [industry |-> <<"M", "a", "r", "k", "e", "t", "i", "n", "g", "/", "S", "a", "l", "e", "s">>,
     keywords |-> <<
       <<"m", "a", "r", "k", "e", "t", "i", "n", "g">>,
       <<"s", "a", "l", "e", "s">>,
       <<"b", "r", "a", "n", "d">>,
       <<"d", "i", "g", "i", "t", "a", "l", " ", "m", "a", "r", "k", "e", "t">>,
       <<"s", "e", "o">>,
       <<"s", "o", "c", "i", "a", "l", " ", "m", "e", "d", "i", "a">>,
       <<"c", "o", "n", "t", "e", "n", "t">>,
       <<"a", "d", "v", "e", "r", "t", "i", "s", "i", "n", "g">>,
       <<"p", "r", "o", "m", "o", "t", "i", "o", "n">>,
       <<"b", "u", "s", "i", "n", "e", "s", "s", " ", "d", "e", "v", "e", "l", "o", "p">>,
       <<"b", "d", "m">>,
       <<"a", "r", "e", "a", " ", "m", "a", "n", "a", "g", "e", "r">>,
       <<"r", "e", "g", "i", "o", "n", "a", "l", " ", "m", "a", "n", "a", "g", "e", "r">>,
       <<"t", "e", "r", "r", "i", "t", "o", "r", "y">>,
       <<"m", "e", "r", "c", "h", "a", "n", "d", "i", "s">>
     >>],
    [industry |-> <<"N", "G", "O", "/", "D", "e", "v", "e", "l", "o", "p", "m", "e", "n", "t">>,
     keywords |-> <<
       <<"n", "g", "o">>,
       <<"d", "e", "v", "e", "l", "o", "p", "m", "e", "n", "t">>,
       <<"h", "u", "m", "a", "n", "i", "t", "a", "r", "i", "a", "n">>,
       <<"r", "e", "l", "i", "e", "f">>,
       <<"u", "n", "d", "p">>,
       <<"u", "n", "i", "c", "e", "f">>,
       <<"p", "r", "o", "j", "e", "c", "t", " ", "o", "f", "f", "i", "c", "e", "r">>,
       <<"f", "i", "e", "l", "d", " ", "o", "f", "f", "i", "c", "e", "r">>,
       <<"c", "o", "o", "r", "d", "i", "n", "a", "t", "o", "r">>,
       <<"c", "o", "m", "m", "u", "n", "i", "t", "y">>,
       <<"v", "o", "l", "u", "n", "t", "e", "e", "r">>,
       <<"s", "o", "c", "i", "a", "l">>
     >>],
    [industry |-> <<"H", "e", "a", "l", "t", "h", "c", "a", "r", "e", "/", "M", "e", "d", "i", "c", "a", "l">>,
     keywords |-> <<
       <<"m", "e", "d", "i", "c", "a", "l">>,
       <<"d", "o", "c", "t", "o", "r">>,
       <<"n", "u", "r", "s", "e">>,
       <<"h", "o", "s", "p", "i", "t", "a", "l">>,
       <<"p", "h", "a", "r", "m", "a">>,
       <<"h", "e", "a", "l", "t", "h">>,
       <<"d", "i", "a", "g", "n", "o", "s", "t", "i", "c">>,
       <<"l", "a", "b", " ">>,
       <<"l", "a", "b", "o", "r", "a", "t", "o", "r", "y">>,
       <<"p", "a", "t", "h", "o", "l", "o", "g">>,
       <<"r", "a", "d", "i", "o", "l", "o", "g">>,
       <<"t", "e", "c", "h", "n", "o", "l", "o", "g", "i", "s", "t">>
     >>],
    [industry |-> <<"E", "d", "u", "c", "a", "t", "i", "o", "n", "/", "T", "r", "a", "i", "n", "i", "n", "g">>,
     keywords |-> <<
       <<"t", "e", "a", "c", "h", "e", "r">>,
       <<"l", "e", "c", "t", "u", "r", "e", "r">>,
       <<"p", "r", "o", "f", "e", "s", "s", "o", "r">>,
       <<"t", "r", "a", "i", "n", "e", "r">>,
       <<"i", "n", "s", "t", "r", "u", "c", "t", "o", "r">>,
       <<"e", "d", "u", "c", "a", "t", "i", "o", "n">>,
       <<"s", "c", "h", "o", "o", "l">>,
       <<"u", "n", "i", "v", "e", "r", "s", "i", "t", "y">>,
       <<"a", "c", "a", "d", "e", "m", "i", "c">>,
       <<"t", "u", "t", "o", "r">>,
       <<"t", "r", "a", "i", "n", "i", "n", "g">>
     >>],
    [industry |-> <<"G", "a", "r", "m", "e", "n", "t", "s", "/", "T", "e", "x", "t", "i", "l", "e">>,
     keywords |-> <<
       <<"g", "a", "r", "m", "e", "n", "t">>,
       <<"t", "e", "x", "t", "i", "l", "e">>,
       <<"k", "n", "i", "t", "t", "i", "n", "g">>,
       <<"d", "y", "e", "i", "n", "g">>,
       <<"w", "a", "s", "h", "i", "n", "g">>,
       <<"s", "e", "w", "i", "n", "g">>,
       <<"f", "a", "b", "r", "i", "c">>,
       <<"a", "p", "p", "a", "r", "e", "l">>,
       <<"s", "w", "e", "a", "t", "e", "r">>,
       <<"f", "a", "s", "h", "i", "o", "n">>,
       <<"m", "e", "r", "c", "h", "a", "n", "d", "i", "s", "e", "r">>
     >>],
    [industry |-> <<"H", "R", "/", "A", "d", "m", "i", "n">>,
     keywords |-> <<
       <<"h", "r", " ">>,
       <<"h", "u", "m", "a", "n", " ", "r", "e", "s", "o", "u", "r", "c", "e">>,
       <<"a", "d", "m", "i", "n">>,
       <<"r", "e", "c", "e", "p", "t", "i", "o", "n", "i", "s", "t">>,
       <<"f", "r", "o", "n", "t", " ", "d", "e", "s", "k">>,
       <<"o", "f", "f", "i", "c", "e", " ", "m", "a", "n", "a", "g", "e">>,
       <<"e", "x", "e", "c", "u", "t", "i", "v", "e", " ", "a", "s", "s", "i", "s", "t">>,
       <<"p", "e", "r", "s", "o", "n", "a", "l", " ", "a", "s", "s", "i", "s", "t">>
     >>],
    [industry |-> <<"A", "c", "c", "o", "u", "n", "t", "i", "n", "g", "/", "F", "i", "n", "a", "n", "c", "e">>,
     keywords |-> <<
       <<"a", "c", "c", "o", "u", "n", "t", "a", "n", "t">>,
       <<"a", "c", "c", "o", "u", "n", "t", "s", " ", "o", "f", "f", "i", "c", "e", "r">>,
       <<"b", "o", "o", "k", "k", "e", "e", "p">>,
       <<"p", "a", "y", "r", "o", "l", "l">>,
       <<"f", "i", "n", "a", "n", "c", "i", "a", "l", " ", "a", "n", "a", "l", "y", "s", "t">>
     >>]
  >>

GeneralOther == <<"G", "e", "n", "e", "r", "a", "l", "/", "O", "t", "h", "e", "r">>

RECURSIVE FirstIndustry(_, _)
FirstIndustry(text, k) ==
  IF k > Len(INDUSTRY_KEYWORDS) THEN GeneralOther
  ELSE IF \E m \in DOMAIN INDUSTRY_KEYWORDS[k].keywords :
            Contains(text, Lower(INDUSTRY_KEYWORDS[k].keywords[m]))
         THEN INDUSTRY_KEYWORDS[k].industry
         ELSE FirstIndustry(text, k + 1)

\* mutant: the text is searched as it was written
detect_industry_as_written(job_title, education, company) ==
  FirstIndustry(job_title \o <<" ">> \o education \o <<" ">> \o company, 1)

detect_industry(job_title, education, company) ==
  FirstIndustry(Lower(job_title \o <<" ">> \o education \o <<" ">> \o company), 1)

(***************************************************************************)
(* scraper.py: parse_job                                                   *)
(***************************************************************************)
IsDigit(c) == \E k \in DOMAIN Digits : Digits[k] = c

DigitVal(c) == (CHOOSE k \in DOMAIN Digits : Digits[k] = c) - 1

\* re.sub(r"<[^>]+>", "", s): every leftmost "<", one or more characters
\* other than ">", ">" is removed
RECURSIVE StripTags(_)
StripTags(s) ==
  IF s = <<>> THEN <<>>
  ELSE IF s[1] = "<" /\ \E j \in 3 .. Len(s) :
                          /\ s[j] = ">"
                          /\ \A m \in 2 .. (j - 1) : s[m] # ">"
         THEN LET j == CHOOSE j \in 3 .. Len(s) :
                         /\ s[j] = ">"
                         /\ \A m \in 2 .. (j - 1) : s[m] # ">"
              IN  StripTags(SubSeq(s, j + 1, Len(s)))
         ELSE <<s[1]>> \o StripTags(Tail(s))

\* s matches pat exactly: "d" in pat stands for a digit, any other character
\* for itself
MatchesForm(s, pat) ==
  /\ Len(s) = Len(pat)
  /\ \A k \in DOMAIN s : IF pat[k] = "d" THEN IsDigit(s[k]) ELSE s[k] = pat[k]

TwoDigits(s, k) == 10 * DigitVal(s[k]) + DigitVal(s[k + 1])

\* datetime.fromisoformat accepts s: a calendar date, alone or followed by a
\* time of day and an offset
IsoForms ==
  { <<"d", "d", "d", "d", "-", "d", "d", "-", "d", "d">>,
    <<"d", "d", "d", "d", "-", "d", "d", "-", "d", "d", "T", "d", "d", ":", "d", "d", ":", "d", "d">>,
    <<"d", "d", "d", "d", "-", "d", "d", "-", "d", "d", "T", "d", "d", ":", "d", "d", ":", "d", "d", "+", "d", "d", ":", "d", "d">> }

IsIsoFormat(s) ==
  /\ \E pat \in IsoForms : MatchesForm(s, pat)
  /\ TwoDigits(s, 6) \in 1 .. 12
  /\ TwoDigits(s, 9) \in 1 .. 31

\* publish_date.replace("Z", "+00:00")
RECURSIVE ReplaceZ(_)
ReplaceZ(s) ==
  IF s = <<>> THEN <<>>
  ELSE (IF s[1] = "Z" THEN <<"+", "0", "0", ":", "0", "0">> ELSE <<s[1]>>) \o ReplaceZ(Tail(s))

\* lines 203-210: the posting's own date when it parses, else today's
DateStr(publish_date, today) ==
  IF publish_date # <<>> /\ publish_date # <<"N", "o", "n", "e">>
       /\ IsIsoFormat(ReplaceZ(publish_date))
    THEN SubSeq(ReplaceZ(publish_date), 1, 10)
    ELSE today

\* lines 188-197
SkillsOf(experience, education) ==
  LET clean_edu == Strip(StripTags(education))
      exp_part  == IF experience # <<>> /\ Lower(experience) # <<"n", "o", "n", "e">>
                     THEN << <<"E", "x", "p", "e", "r", "i", "e", "n", "c", "e", ":", " ">> \o experience >> ELSE <<>>
      edu_part  == IF education # <<>> /\ Lower(education) # <<"n", "o", "n", "e">>
                        /\ clean_edu # <<>>
                     THEN << <<"E", "d", "u", "c", "a", "t", "i", "o", "n", ":", " ">> \o clean_edu >> ELSE <<>>
      parts     == exp_part \o edu_part
  IN  IF Len(parts) = 0 THEN <<>>
      ELSE IF Len(parts) = 1 THEN parts[1]
      ELSE parts[1] \o <<",", " ">> \o parts[2]

\* mutant: only an empty title is rejected
TitleRejectedIfEmpty(job) == GetStr(job.jobTitle) = <<>>

\* line 182: parse_job returns None
TitleRejected(job) ==
  LET job_title == GetStr(job.jobTitle)
  IN  job_title = <<>> \/ Lower(job_title) = <<"n", "o", "n", "e">>

\* lines 173-221, for a job whose title is accepted
parse_job(job, today) ==
  LET job_title    == GetStr(job.jobTitle)
      company      == GetStr(job.companyName)
      location     == GetStr(job.location)
      experience   == GetStr(job.experience)
      education    == GetStr(job.eduRec)
      publish_date == GetStr(job.publishDate)
  IN  [ job_title    |-> job_title,
        company      |-> company,
        salary_min   |-> <<>>,
        salary_max   |-> <<>>,
        skills       |-> SkillsOf(experience, education),
        industry     |-> detect_industry(job_title, education, company),
        location     |-> IF location = <<>> \/ Lower(location) = <<"n", "o", "n", "e">>
                           THEN <<"D", "h", "a", "k", "a">> ELSE location,
        date_scraped |-> DateStr(publish_date, today) ]

(***************************************************************************)
(* scraper.py: the run (main)                                              *)
(***************************************************************************)
\* Bounds of the model
MaxJobs == 3        \* postings the listings API holds, over all categories
Rpp     == 1        \* postings the API returns per page
MaxRuns == 2        \* scraper runs

\* fetch_jobs(cat_id, max_pages=2), line 250
MaxPages == 2

\* CATEGORIES, lines 39-50, in the order main() iterates them
CATEGORIES == <<8, 2, 10, 3, 12, 1, 6, 9, 4, 7>>

\* the categories a modelled run fetches: the first two
RunCategories == SubSeq(CATEGORIES, 1, 2)

\* datetime.now().strftime("%Y-%m-%d") of the k-th run (the job runs daily)
RunDates == << <<"2", "0", "2", "4", "-", "0", "5", "-", "0", "1">>, <<"2", "0", "2", "4", "-", "0", "5", "-", "0", "2">>, <<"2", "0", "2", "4", "-", "0", "5", "-", "0", "3">>, <<"2", "0", "2", "4", "-", "0", "5", "-", "0", "4">> >>

\* Raw postings the API may hold.  Jobid / jobId 0 stands for an absent or
\* falsy vendor id.
RawJob(Jobid, jobId, jobTitle, companyName, location, experience, eduRec, publishDate) ==
  [ Jobid |-> Jobid, jobId |-> jobId, jobTitle |-> jobTitle,
    companyName |-> companyName, location |-> location,
    experience |-> experience, eduRec |-> eduRec, publishDate |-> publishDate ]

Catalogue ==
  { RawJob(1, 0, <<"S", "o", "f", "t", "w", "a", "r", "e", " ", "E", "n", "g", "i", "n", "e", "e", "r">>, <<"A", "c", "m", "e">>, <<"S", "y", "l", "h", "e", "t">>, <<"2", " ", "y", "e", "a", "r", "s">>, <<"B", "S", "c", " ", "C", "S", "E">>,
           <<"2", "0", "2", "4", "-", "0", "4", "-", "3", "0", "T", "1", "0", ":", "0", "0", ":", "0", "0">>),
    RawJob(0, 0, <<"s", "o", "f", "t", "w", "a", "r", "e", " ", "e", "n", "g", "i", "n", "e", "e", "r", " ">>, <<"a", "c", "m", "e">>, <<>>, <<>>, <<>>, <<"2", "0", "2", "4", "-", "0", "4", "-", "2", "9", "Z">>),
    RawJob(1, 0, <<" ", "D", "a", "t", "a", " ", "A", "n", "a", "l", "y", "s", "t">>, Null, <<"n", "o", "n", "e">>, <<"N", "o", "n", "e">>, <<"<", "p", ">", "M", "B", "A", "<", "/", "p", ">">>, <<"s", "o", "o", "n">>),
    RawJob(0, 2, <<"N", "o", "n", "e">>, <<"A", "c", "m", "e">>, Null, Null, Null, Null) }

Header ==
  << <<"j", "o", "b", "_", "t", "i", "t", "l", "e">>, <<"c", "o", "m", "p", "a", "n", "y">>, <<"s", "a", "l", "a", "r", "y", "_", "m", "i", "n">>, <<"s", "a", "l", "a", "r", "y", "_", "m", "a", "x">>,
     <<"s", "k", "i", "l", "l", "s">>, <<"i", "n", "d", "u", "s", "t", "r", "y">>, <<"l", "o", "c", "a", "t", "i", "o", "n">>, <<"d", "a", "t", "e", "_", "s", "c", "r", "a", "p", "e", "d">> >>

\* lines 281-293: the row written for a parsed posting
RowOf(r) ==
  << r.job_title, r.company, r.salary_min, r.salary_max,
     r.skills, r.industry, r.location, r.date_scraped >>

\* mutant: the key keeps the case of title and company
KeyCaseSensitive(title, company) == Strip(title \o <<"|">> \o company)

\* the identity key, lines 241 and 266
Key(title, company) == Strip(Lower(title \o <<"|">> \o company))

\* mutant: the scan of the sheet starts one row too low
KeysOfSheetSkipsRow(existing_data) ==
  IF Len(existing_data) > 1
    THEN { Key(existing_data[k][1], existing_data[k][2]) :
             k \in { m \in 3 .. Len(existing_data) : Len(existing_data[m]) >= 2 } }
    ELSE {}

\* lines 236-242
KeysOfSheet(existing_data) ==
  IF Len(existing_data) > 1
    THEN { Key(existing_data[k][1], existing_data[k][2]) :
             k \in { m \in 2 .. Len(existing_data) : Len(existing_data[m]) >= 2 } }
    ELSE {}

Min(a, b) == IF a <= b THEN a ELSE b

\* the API's answer for one page of a category's listing
PageOf(listing, page) ==
  SubSeq(listing, (page - 1) * Rpp + 1, Min(page * Rpp, Len(listing)))

\* mutant: after a page whose request raises the loop goes on to the next page
RECURSIVE FetchPagesContinue(_, _, _, _)
FetchPagesContinue(listing, page, failAt, acc) ==
  IF page > MaxPages THEN acc
  ELSE IF page = failAt THEN FetchPagesContinue(listing, page + 1, failAt, acc)
  ELSE IF PageOf(listing, page) = <<>> THEN acc
  ELSE FetchPagesContinue(listing, page + 1, failAt, acc \o PageOf(listing, page))

\* fetch_jobs, lines 150-170.  failAt is the first page whose request raises
\* (MaxPages + 1: none does).
RECURSIVE FetchPages(_, _, _, _)
FetchPages(listing, page, failAt, acc) ==
  IF page > MaxPages THEN acc
  ELSE IF page = failAt THEN acc
  ELSE IF PageOf(listing, page) = <<>> THEN acc
  ELSE FetchPages(listing, page + 1, failAt, acc \o PageOf(listing, page))

fetch_jobs(listing, failAt) == FetchPages(listing, 1, failAt, <<>>)

\* line 253: job.get("Jobid") or job.get("jobId") or id(job)
Jid(job, obj) ==
  IF job.Jobid # 0 THEN <<"vendor", job.Jobid>>
  ELSE IF job.jobId # 0 THEN <<"vendor", job.jobId>>
  ELSE <<"object", obj>>

\* lines 252-256 for the jobs of one category: objs holds every job object of
\* the run, first .. last are the ones just fetched
RECURSIVE DedupIds(_, _, _, _, _)
DedupIds(objs, k, last, seen, acc) ==
  IF k > last THEN [seen_ids |-> seen, all_jobs |-> acc]
  ELSE IF Jid(objs[k], k) \notin seen
         THEN DedupIds(objs, k + 1, last, seen \cup {Jid(objs[k], k)}, Append(acc, k))
         ELSE DedupIds(objs, k + 1, last, seen, acc)

\* parse_job tabulated over the postings and dates of the model: whether it
\* returns None (line 183), and the dict it returns otherwise
ParsedIsNone == [ job \in Catalogue |-> TitleRejected(job) ]

Parsed ==
  [ job \in Catalogue, today \in { RunDates[k] : k \in DOMAIN RunDates } |->
      parse_job(job, today) ]

\* line 266 tabulated the same way: the key of a posting parse_job accepts
ParsedKey ==
  [ job \in Catalogue |->
      IF TitleRejected(job) THEN <<>>
      ELSE Key(GetStr(job.jobTitle), GetStr(job.companyName)) ]

\* mutant: an accepted key is not added to existing_keys
RECURSIVE ProcessJobsNoAdd(_, _, _, _, _, _, _)
ProcessJobsNoAdd(objs, jobs, k, today, keys, rows, src) ==
  IF k > Len(jobs) THEN [existing_keys |-> keys, new_rows |-> rows, new_src |-> src]
  ELSE IF ParsedIsNone[objs[jobs[k]]]
         THEN ProcessJobsNoAdd(objs, jobs, k + 1, today, keys, rows, src)
  ELSE LET parsed == Parsed[objs[jobs[k]], today]
           key    == ParsedKey[objs[jobs[k]]]
       IN  IF key \notin keys
             THEN ProcessJobsNoAdd(objs, jobs, k + 1, today, keys,
                                   Append(rows, parsed), Append(src, jobs[k]))
             ELSE ProcessJobsNoAdd(objs, jobs, k + 1, today, keys, rows, src)

\* mutant: an accepted posting is put in front of new_rows
RECURSIVE ProcessJobsPrepend(_, _, _, _, _, _, _)
ProcessJobsPrepend(objs, jobs, k, today, keys, rows, src) ==
  IF k > Len(jobs) THEN [existing_keys |-> keys, new_rows |-> rows, new_src |-> src]
  ELSE IF ParsedIsNone[objs[jobs[k]]]
         THEN ProcessJobsPrepend(objs, jobs, k + 1, today, keys, rows, src)
  ELSE LET parsed == Parsed[objs[jobs[k]], today]
           key    == ParsedKey[objs[jobs[k]]]
       IN  IF key \notin keys
             THEN ProcessJobsPrepend(objs, jobs, k + 1, today, keys \cup {key},
                                     <<parsed>> \o rows, <<jobs[k]>> \o src)
             ELSE ProcessJobsPrepend(objs, jobs, k + 1, today, keys, rows, src)

\* lines 261-272: the dedup pass over all_jobs
RECURSIVE ProcessJobs(_, _, _, _, _, _, _)
ProcessJobs(objs, jobs, k, today, keys, rows, src) ==
  IF k > Len(jobs) THEN [existing_keys |-> keys, new_rows |-> rows, new_src |-> src]
  ELSE IF ParsedIsNone[objs[jobs[k]]]
         THEN ProcessJobs(objs, jobs, k + 1, today, keys, rows, src)
  ELSE LET parsed == Parsed[objs[jobs[k]], today]
           key    == ParsedKey[objs[jobs[k]]]
       IN  IF key \notin keys
             THEN ProcessJobs(objs, jobs, k + 1, today, keys \cup {key},
                              Append(rows, parsed), Append(src, jobs[k]))
             ELSE ProcessJobs(objs, jobs, k + 1, today, keys, rows, src)

RECURSIVE SumLen(_, _)
SumLen(f, k) == IF k = 0 THEN 0 ELSE Len(f[k]) + SumLen(f, k - 1)

SeqsUpTo(S, n) == UNION { [1 .. k -> S] : k \in 0 .. n }

Upstreams ==
  { u \in [DOMAIN RunCategories -> SeqsUpTo(Catalogue, MaxJobs)] :
      SumLen(u, Len(RunCategories)) <= MaxJobs }

\* rows the sheet holds before the first modelled run
InitialSheets ==
  { <<Header>>,
    <<Header, << <<"S", "O", "F", "T", "W", "A", "R", "E", " ", "E", "N", "G", "I", "N", "E", "E", "R">>, <<"A", "C", "M", "E">>, <<>>, <<>>, <<>>,
               <<"I", "T", "/", "T", "e", "l", "e", "c", "o", "m", "m", "u", "n", "i", "c", "a", "t", "i", "o", "n">>, <<"D", "h", "a", "k", "a">>, <<"2", "0", "2", "4", "-", "0", "4", "-", "0", "1">> >> >> }

InitScraper ==
  /\ sheet \in InitialSheets
  /\ upstream \in Upstreams
  /\ pc = "idle"
  /\ run = 0
  /\ cat = 1
  /\ fetched = <<>>
  /\ all_jobs = <<>>
  /\ seen_ids = {}
  /\ existing_keys = {}
  /\ new_rows = <<>>
  /\ new_src = <<>>
  /\ prev_jobs = <<>>
  /\ inp = <<>>
  /\ out = <<>>

\* mutant: a run that does not read the keys the sheet holds
StartIgnoresSheet ==
  /\ pc = "idle"
  /\ run < MaxRuns
  /\ existing_keys' = {}
  /\ fetched' = <<>>
  /\ all_jobs' = <<>>
  /\ seen_ids' = {}
  /\ new_rows' = <<>>
  /\ new_src' = <<>>
  /\ cat' = 1
  /\ pc' = "fetch"
  /\ UNCHANGED <<sheet, upstream, run, prev_jobs, inp, out>>

\* lines 229-247
Start ==
  /\ pc = "idle"
  /\ run < MaxRuns
  /\ existing_keys' = KeysOfSheet(sheet)
  /\ fetched' = <<>>
  /\ all_jobs' = <<>>
  /\ seen_ids' = {}
  /\ new_rows' = <<>>
  /\ new_src' = <<>>
  /\ cat' = 1
  /\ pc' = "fetch"
  /\ UNCHANGED <<sheet, upstream, run, prev_jobs, inp, out>>

\* lines 248-257, one category
FetchCategory ==
  /\ pc = "fetch"
  /\ \E failAt \in 1 .. (MaxPages + 1) :
       LET jobs == fetch_jobs(upstream[cat], failAt)
           objs == fetched \o jobs
           d    == DedupIds(objs, Len(fetched) + 1, Len(objs), seen_ids, all_jobs)
       IN  /\ fetched' = objs
           /\ seen_ids' = d.seen_ids
           /\ all_jobs' = d.all_jobs
  /\ cat' = cat + 1
  /\ pc' = IF cat = Len(RunCategories) THEN "process" ELSE "fetch"
  /\ UNCHANGED <<sheet, upstream, run, existing_keys, new_rows, new_src,
                 prev_jobs, inp, out>>

\* lines 260-277
Process ==
  /\ pc = "process"
  /\ LET p == ProcessJobs(fetched, all_jobs, 1, RunDates[run + 1],
                          existing_keys, <<>>, <<>>)
     IN  /\ existing_keys' = p.existing_keys
         /\ new_rows' = p.new_rows
         /\ new_src' = p.new_src
  /\ pc' = "write"
  /\ UNCHANGED <<sheet, upstream, run, cat, fetched, all_jobs, seen_ids,
                 prev_jobs, inp, out>>

\* mutant: the sheet is cleared and written anew from the rows of this run
WriteRewritesSheet ==
  /\ pc = "write"
  /\ sheet' = IF new_rows # <<>>
                THEN <<Header>> \o [k \in DOMAIN new_rows |-> RowOf(new_rows[k])]
                ELSE sheet
  /\ prev_jobs' = [k \in DOMAIN all_jobs |-> fetched[all_jobs[k]]]
  /\ run' = run + 1
  /\ pc' = "idle"
  /\ UNCHANGED <<upstream, cat, fetched, all_jobs, seen_ids, existing_keys,
                 new_rows, new_src, inp, out>>

\* lines 279-299
Write ==
  /\ pc = "write"
  /\ sheet' = IF new_rows # <<>>
                THEN sheet \o [k \in DOMAIN new_rows |-> RowOf(new_rows[k])]
                ELSE sheet
  /\ prev_jobs' = [k \in DOMAIN all_jobs |-> fetched[all_jobs[k]]]
  /\ run' = run + 1
  /\ pc' = "idle"
  /\ UNCHANGED <<upstream, cat, fetched, all_jobs, seen_ids, existing_keys,
                 new_rows, new_src, inp, out>>

NextScraper == Start \/ FetchCategory \/ Process \/ Write

SpecScraper == InitScraper /\ [][NextScraper]_vars

(***************************************************************************)
(* Properties of the scraper run                                           *)
(***************************************************************************)
\* the title and company parse_job keeps for a raw posting
TitleTable   == [job \in Catalogue |-> GetStr(job.jobTitle)]
CompanyTable == [job \in Catalogue |-> GetStr(job.companyName)]

TitleOf(i)   == TitleTable[fetched[i]]
CompanyOf(i) == CompanyTable[fetched[i]]

\* the identity key as the specification words it
IdentityKey(title, company) == Lower(title) \o <<"|">> \o Lower(company)

IdentityKeyTable ==
  [job \in Catalogue |-> IdentityKey(TitleTable[job], CompanyTable[job])]

KeyOfObj(i) == IdentityKeyTable[fetched[i]]

\* the keys of the rows the sheet holds below its header
PersistedKeys ==
  { IdentityKey(sheet[k][1], sheet[k][2]) : k \in 2 .. Len(sheet) }

\* job objects of the run whose title parse_job accepts
ValidObjs == { i \in DOMAIN fetched : ~ParsedIsNone[fetched[i]] }

Kept(i) == \E k \in DOMAIN new_src : new_src[k] = i

VendorId(job) == IF job.Jobid # 0 THEN job.Jobid ELSE job.jobId

\* no earlier job object of the run carries the same vendor job id
FirstWithVendorId(i) ==
  \A j \in 1 .. (i - 1) :
    VendorId(fetched[j]) = 0 \/ VendorId(fetched[j]) # VendorId(fetched[i])

\* the key of job object i is not in persisted and no earlier kept job has it
FreshKey(i, persisted) ==
  /\ KeyOfObj(i) \notin persisted
  /\ \A j \in 1 .. (i - 1) : Kept(j) => KeyOfObj(j) # KeyOfObj(i)

\* C1 as stated: once the dedup pass has run, a fetched posting with a valid
\* title is kept iff its identity key is neither persisted nor the key of an
\* earlier kept posting of the run; nothing else drops it.
C1_KeptIffFreshKey ==
  pc = "write" =>
    LET persisted == PersistedKeys
    IN  \A i \in ValidObjs : Kept(i) <=> FreshKey(i, persisted)

\* C1 amended: a fetched posting with a valid title is kept iff it is the
\* first of the run with its vendor job id and its identity key is neither
\* persisted nor the key of an earlier kept posting of the run.
C1_KeptIffFirstIdAndFreshKey ==
  pc = "write" =>
    LET persisted == PersistedKeys
    IN  \A i \in ValidObjs :
          Kept(i) <=> (FirstWithVendorId(i) /\ FreshKey(i, persisted))

\* a run that kept one posting, dropped one for its key and dropped one with
\* a fresh key because its vendor job id had been seen
C1_Witness ==
  /\ pc = "write"
  /\ \E i, j \in ValidObjs :
       /\ Kept(i)
       /\ ~Kept(j) /\ FreshKey(j, PersistedKeys) /\ ~FirstWithVendorId(j)
  /\ \E i \in ValidObjs : ~Kept(i) /\ ~FreshKey(i, PersistedKeys)

\* C2: a run whose batch is the batch of the run before it, with
\* existing_keys rebuilt from the sheet that run wrote, accepts nothing.
BatchOfRun == [k \in DOMAIN all_jobs |-> fetched[all_jobs[k]]]

C2_SecondRunAcceptsNothing ==
  (pc = "write" /\ run >= 1 /\ BatchOfRun = prev_jobs) => new_rows = <<>>

\* the second run meets the batch of a first run that persisted rows
C2_Witness ==
  /\ pc = "write"
  /\ run = 1
  /\ BatchOfRun = prev_jobs
  /\ \E k \in DOMAIN prev_jobs : ~TitleRejected(prev_jobs[k])
  /\ Len(sheet) > 2

\* s and t differ at most in the case of their letters
SameIgnoringCase(s, t) ==
  /\ Len(s) = Len(t)
  /\ \A k \in DOMAIN s :
       \/ s[k] = t[k]
       \/ \E m \in DOMAIN UpperCase :
            {s[k], t[k]} = {UpperCase[m], LowerCase[m]}

CaseVariantTable ==
  [a \in Catalogue, b \in Catalogue |->
     /\ SameIgnoringCase(TitleTable[a], TitleTable[b])
     /\ SameIgnoringCase(CompanyTable[a], CompanyTable[b])]

CaseVariants(i, j) == CaseVariantTable[fetched[i], fetched[j]]

\* C3: postings whose titles and companies differ only in letter case get
\* the same key, and at most one of them is accepted.
C3_KeyIgnoresCase ==
  pc = "write" =>
    \A i, j \in ValidObjs :
      CaseVariants(i, j) =>
        /\ ParsedKey[fetched[i]] = ParsedKey[fetched[j]]
        /\ i # j => ~(Kept(i) /\ Kept(j))

\* two postings that differ in case only: the first is kept, the second not
C3_Witness ==
  /\ pc = "write"
  /\ \E i, j \in ValidObjs :
       /\ i < j
       /\ CaseVariants(i, j)
       /\ TitleOf(i) # TitleOf(j) /\ CompanyOf(i) # CompanyOf(j)
       /\ Kept(i) /\ ~Kept(j)

\* positions of all_jobs the dedup pass must accept: valid title, key not
\* persisted, and no earlier candidate of the pass has the key
FirstOccurrences ==
  LET persisted == PersistedKeys
  IN
  { k \in DOMAIN all_jobs :
      /\ all_jobs[k] \in ValidObjs
      /\ KeyOfObj(all_jobs[k]) \notin persisted
      /\ \A m \in 1 .. (k - 1) :
           all_jobs[m] \in ValidObjs => KeyOfObj(all_jobs[m]) # KeyOfObj(all_jobs[k]) }

PosInBatch(i) == CHOOSE k \in DOMAIN all_jobs : all_jobs[k] = i

\* C4: the accepted list is the subsequence of the candidates, in input
\* order, made of the first occurrence of each key that is not persisted.
C4_FirstOccurrenceWins ==
  pc = "write" =>
    LET first == FirstOccurrences
    IN
    /\ Len(new_src) = Cardinality(first)
    /\ { new_src[k] : k \in DOMAIN new_src } = { all_jobs[k] : k \in first }
    /\ \A a, b \in DOMAIN new_src :
         a < b => PosInBatch(new_src[a]) < PosInBatch(new_src[b])
    /\ Len(new_rows) = Len(new_src)
    /\ \A k \in DOMAIN new_rows :
         /\ new_rows[k].job_title = TitleOf(new_src[k])
         /\ new_rows[k].company = CompanyOf(new_src[k])

\* a pass that accepted two postings and skipped a later duplicate of the first
C4_Witness ==
  /\ pc = "write"
  /\ Len(new_src) >= 2
  /\ \E k \in DOMAIN all_jobs :
       /\ all_jobs[k] \in ValidObjs
       /\ k \notin FirstOccurrences
       /\ \E a \in DOMAIN new_src :
            /\ PosInBatch(new_src[a]) < k
            /\ KeyOfObj(all_jobs[k]) = KeyOfObj(new_src[a])

(***************************************************************************)
(* app/utils.py: apply_filters                                             *)
(***************************************************************************)
\* Bound of the model: rows of the corpus handed to a helper
MaxRows == 2

\* the scraper's variables, unused while a helper of app/utils.py is studied
ScraperUnused ==
  /\ sheet = <<>>
  /\ upstream = <<>>
  /\ run = 0
  /\ cat = 0
  /\ fetched = <<>>
  /\ all_jobs = <<>>
  /\ seen_ids = {}
  /\ existing_keys = {}
  /\ new_rows = <<>>
  /\ new_src = <<>>
  /\ prev_jobs = <<>>

Industries == {"IT/Telecommunication", "Bank/Financial"}
JobTitles  == {"Developer", "Cashier"}
Locations  == {"Dhaka", "Sylhet"}

FilterRows == [industry : Industries, job_title : JobTitles, location : Locations]

\* filtered[filtered[col].isin(values)]
Isin(df, col, values) == SelectSeq(df, LAMBDA r : r[col] \in values)

\* mutant: an empty selection is applied like any other and excludes every row
apply_filters_no_guard(df, industries, job_titles, locations) ==
  Isin(Isin(Isin(df, "industry", industries), "job_title", job_titles),
       "location", locations)

\* lines 185-199; a selection list is modelled by the set of its members
apply_filters(df, industries, job_titles, locations) ==
  LET f1 == IF industries # {} THEN Isin(df, "industry", industries) ELSE df
      f2 == IF job_titles # {} THEN Isin(f1, "job_title", job_titles) ELSE f1
      f3 == IF locations # {} THEN Isin(f2, "location", locations) ELSE f2
  IN  f3

InitFilter ==
  /\ ScraperUnused
  /\ pc = "call"
  /\ \E df \in SeqsUpTo(FilterRows, MaxRows), industries \in SUBSET Industries,
        job_titles \in SUBSET JobTitles, locations \in SUBSET Locations :
       inp = [df |-> df, industries |-> industries,
              job_titles |-> job_titles, locations |-> locations]
  /\ out = <<>>

ApplyFilters ==
  /\ pc = "call"
  /\ out' = apply_filters(inp.df, inp.industries, inp.job_titles, inp.locations)
  /\ pc' = "return"
  /\ UNCHANGED inp
  /\ UNCHANGED scraperVars

NextFilter == ApplyFilters

SpecFilter == InitFilter /\ [][NextFilter]_vars

\* a row meets a dimension when the selection is empty or holds its value
MeetsSelections(r) ==
  /\ inp.industries = {} \/ r.industry \in inp.industries
  /\ inp.job_titles = {} \/ r.job_title \in inp.job_titles
  /\ inp.locations = {} \/ r.location \in inp.locations

\* C5: the result is exactly the rows meeting every non-empty selection, in
\* corpus order; with the three selections empty it is the corpus itself.
C5_FilterIsIntersection ==
  pc = "return" =>
    /\ out = SelectSeq(inp.df, MeetsSelections)
    /\ (inp.industries = {} /\ inp.job_titles = {} /\ inp.locations = {})
         => out = inp.df

\* one dimension unconstrained, another selecting some rows and not others
C5_Witness ==
  /\ pc = "return"
  /\ inp.industries = {}
  /\ inp.locations # {}
  /\ out # <<>>
  /\ Len(out) < Len(inp.df)

(***************************************************************************)
(* app/utils.py: _clean_dataframe                                          *)
(***************************************************************************)
\* A cell of the loaded table: a number, a string, or NaN (a missing value)
NumCell(n) == [kind |-> "num", n |-> n, s |-> <<>>]
StrCell(s) == [kind |-> "str", n |-> 0, s |-> s]
NanCell    == [kind |-> "nan", n |-> 0, s |-> <<>>]

\* the integer a string of digits denotes
RECURSIVE DigitsValue(_)
DigitsValue(s) ==
  IF s = <<>> THEN 0
  ELSE 10 * DigitsValue(SubSeq(s, 1, Len(s) - 1)) + DigitVal(s[Len(s)])

\* str(n) for n >= 0
RECURSIVE DigitsOf(_)
DigitsOf(n) ==
  IF n < 10 THEN <<Digits[n + 1]>>
  ELSE DigitsOf(n \div 10) \o <<Digits[(n % 10) + 1]>>

\* pd.to_numeric(errors="coerce") on one cell: a number stays, a string of
\* digits is read, anything else becomes NaN
to_numeric(c) ==
  IF c.kind = "num" THEN c
  ELSE IF c.kind = "str" /\ c.s # <<>> /\ \A k \in DOMAIN c.s : IsDigit(c.s[k])
         THEN NumCell(DigitsValue(c.s))
         ELSE NanCell

\* astype(str).str.strip() on one cell
AsStrippedStr(c) ==
  IF c.kind = "str" THEN StrCell(Strip(c.s))
  ELSE IF c.kind = "nan" THEN StrCell(<<"n", "a", "n">>)
  ELSE StrCell(DigitsOf(c.n))

\* str.replace(" ", "_")
ReplaceSpaces(s) == [k \in DOMAIN s |-> IF s[k] = " " THEN "_" ELSE s[k]]

\* line 93: one column name
NormCol(name) == ReplaceSpaces(Lower(Strip(name)))

\* column names as a sheet or CSV may spell them
CleanHeaders ==
  { << <<"j", "o", "b", "_", "t", "i", "t", "l", "e">>, <<"c", "o", "m", "p", "a", "n", "y">>, <<"s", "a", "l", "a", "r", "y", "_", "m", "i", "n">>, <<"s", "a", "l", "a", "r", "y", "_", "m", "a", "x">>, <<"s", "k", "i", "l", "l", "s">>,
       <<"i", "n", "d", "u", "s", "t", "r", "y">>, <<"l", "o", "c", "a", "t", "i", "o", "n">> >>,
    << <<"J", "o", "b", " ", "T", "i", "t", "l", "e", " ">>, <<"C", "o", "m", "p", "a", "n", "y">>, <<"S", "a", "l", "a", "r", "y", " ", "M", "i", "n">>, <<" ", "s", "a", "l", "a", "r", "y", " ", "m", "a", "x">>, <<"S", "k", "i", "l", "l", "s">>,
       <<"I", "n", "d", "u", "s", "t", "r", "y">>, <<"L", "o", "c", "a", "t", "i", "o", "n">> >>,
    << <<"j", "o", "b", "_", "t", "i", "t", "l", "e">>, <<"c", "o", "m", "p", "a", "n", "y">>, <<"s", "k", "i", "l", "l", "s">>, <<"i", "n", "d", "u", "s", "t", "r", "y">>, <<"l", "o", "c", "a", "t", "i", "o", "n">> >> }

\* line 93 tabulated over the column names of the model
NormColTable ==
  [ name \in UNION { { h[k] : k \in DOMAIN h } : h \in CleanHeaders } |-> NormCol(name) ]

HasCol(cols, name) == \E k \in DOMAIN cols : cols[k] = name

ColIdx(cols, name) == CHOOSE k \in DOMAIN cols : cols[k] = name

SetCell(row, k, c) == [m \in DOMAIN row |-> IF m = k THEN c ELSE row[m]]

\* lines 95-97 on one row
CoerceSalaries(cols, row) ==
  [k \in DOMAIN row |->
     IF cols[k] \in { <<"s", "a", "l", "a", "r", "y", "_", "m", "i", "n">>, <<"s", "a", "l", "a", "r", "y", "_", "m", "a", "x">> } THEN to_numeric(row[k])
     ELSE row[k]]

\* mutant: the mask never selects a row
SwapMaskNever(smin, smax) == FALSE

\* lines 99-103: the mask, for one row
SwapMask(smin, smax) ==
  smin.kind # "nan" /\ smax.kind # "nan" /\ smin.n > smax.n

\* lines 104-107 on one row
SwapSalaries(cols, row) ==
  LET a == ColIdx(cols, <<"s", "a", "l", "a", "r", "y", "_", "m", "i", "n">>)
      b == ColIdx(cols, <<"s", "a", "l", "a", "r", "y", "_", "m", "a", "x">>)
  IN  IF SwapMask(row[a], row[b])
        THEN SetCell(SetCell(row, a, row[b]), b, row[a])
        ELSE row

TextCols == { <<"j", "o", "b", "_", "t", "i", "t", "l", "e">>, <<"c", "o", "m", "p", "a", "n", "y">>, <<"s", "k", "i", "l", "l", "s">>, <<"i", "n", "d", "u", "s", "t", "r", "y">>, <<"l", "o", "c", "a", "t", "i", "o", "n">> }

\* lines 109-112 on one row
StripText(cols, row) ==
  [k \in DOMAIN row |->
     IF cols[k] \in TextCols THEN AsStrippedStr(row[k]) ELSE row[k]]

\* line 114 on one row: the row is dropped
DroppedTitle(cols, row) ==
  row[ColIdx(cols, <<"j", "o", "b", "_", "t", "i", "t", "l", "e">>)].s \in { <<>>, <<"n", "a", "n">> }

\* lines 91-115; raised stands for the KeyError of a column lookup
clean_dataframe(df) ==
  LET cols == [k \in DOMAIN df.columns |-> NormColTable[df.columns[k]]]
  IN  IF ~HasCol(cols, <<"s", "a", "l", "a", "r", "y", "_", "m", "i", "n">>) \/ ~HasCol(cols, <<"s", "a", "l", "a", "r", "y", "_", "m", "a", "x">>)
           \/ ~HasCol(cols, <<"j", "o", "b", "_", "t", "i", "t", "l", "e">>)
        THEN [raised |-> TRUE, columns |-> cols, rows |-> <<>>]
        ELSE LET fix(row) == StripText(cols, SwapSalaries(cols, CoerceSalaries(cols, row)))
                 fixed    == [k \in DOMAIN df.rows |-> fix(df.rows[k])]
             IN  [ raised  |-> FALSE,
                   columns |-> cols,
                   rows    |-> SelectSeq(fixed, LAMBDA row : ~DroppedTitle(cols, row)) ]

TitleCells  == { StrCell(<<" ", "Q", "a">>), StrCell(<<" ">>), NanCell }
SalaryCells == { NumCell(5), StrCell(<<"4">>), StrCell(<<>>) }

\* the row of a table with the given column names
CleanRow(header, title, smin, smax) ==
  [k \in DOMAIN header |->
     CASE NormColTable[header[k]] = <<"j", "o", "b", "_", "t", "i", "t", "l", "e">>  -> title
       [] NormColTable[header[k]] = <<"s", "a", "l", "a", "r", "y", "_", "m", "i", "n">> -> smin
       [] NormColTable[header[k]] = <<"s", "a", "l", "a", "r", "y", "_", "m", "a", "x">> -> smax
       [] NormColTable[header[k]] = <<"c", "o", "m", "p", "a", "n", "y">>    -> StrCell(<<" ", "A", "c", "m", "e", " ">>)
       [] NormColTable[header[k]] = <<"s", "k", "i", "l", "l", "s">>     -> NanCell
       [] OTHER                             -> StrCell(<<"D", "h", "a", "k", "a">>)]

InitClean ==
  /\ ScraperUnused
  /\ pc = "call"
  /\ \E header \in CleanHeaders,
        picks \in SeqsUpTo(TitleCells \X SalaryCells \X SalaryCells, MaxRows) :
       inp = [ columns |-> header,
               rows |-> [k \in DOMAIN picks |->
                           CleanRow(header, picks[k][1], picks[k][2], picks[k][3])] ]
  /\ out = <<>>

CleanDataframe ==
  /\ pc = "call"
  /\ out' = clean_dataframe(inp)
  /\ pc' = "return"
  /\ UNCHANGED inp
  /\ UNCHANGED scraperVars

NextClean == CleanDataframe

SpecClean == InitClean /\ [][NextClean]_vars

\* the cell of a row under a (normalised) column name
CellOf(columns, row, name) ==
  row[CHOOSE k \in DOMAIN columns : NormColTable[columns[k]] = name]

\* the cell of a cleaned row under a column name
OutCell(row, name) == row[CHOOSE k \in DOMAIN out.columns : out.columns[k] = name]

InputHasSalaries ==
  \E k, m \in DOMAIN inp.columns :
    NormColTable[inp.columns[k]] = <<"s", "a", "l", "a", "r", "y", "_", "m", "i", "n">> /\ NormColTable[inp.columns[m]] = <<"s", "a", "l", "a", "r", "y", "_", "m", "a", "x">>

\* rows of the input whose title survives line 114, in order
SurvivingInput ==
  SelectSeq(inp.rows,
            LAMBDA row : AsStrippedStr(CellOf(inp.columns, row, <<"j", "o", "b", "_", "t", "i", "t", "l", "e">>)).s
                           \notin { <<>>, <<"n", "a", "n">> })

\* C6: after _clean_dataframe every row with both bounds present has
\* salary_min <= salary_max; a row whose bounds came in the wrong order is
\* kept with the two values exchanged, and nothing is raised on its account.
C6_SalaryOrdered ==
  pc = "return" =>
    /\ out.raised <=> ~InputHasSalaries
    /\ ~out.raised =>
         /\ \A k \in DOMAIN out.rows :
              LET lo == OutCell(out.rows[k], <<"s", "a", "l", "a", "r", "y", "_", "m", "i", "n">>)
                  hi == OutCell(out.rows[k], <<"s", "a", "l", "a", "r", "y", "_", "m", "a", "x">>)
              IN  (lo.kind = "num" /\ hi.kind = "num") => lo.n <= hi.n
         /\ Len(out.rows) = Len(SurvivingInput)
         /\ \A k \in DOMAIN SurvivingInput :
              LET a  == to_numeric(CellOf(inp.columns, SurvivingInput[k], <<"s", "a", "l", "a", "r", "y", "_", "m", "i", "n">>))
                  b  == to_numeric(CellOf(inp.columns, SurvivingInput[k], <<"s", "a", "l", "a", "r", "y", "_", "m", "a", "x">>))
                  lo == OutCell(out.rows[k], <<"s", "a", "l", "a", "r", "y", "_", "m", "i", "n">>)
                  hi == OutCell(out.rows[k], <<"s", "a", "l", "a", "r", "y", "_", "m", "a", "x">>)
              IN  IF a.kind = "num" /\ b.kind = "num"
                    THEN lo.n = Min(a.n, b.n) /\ hi.n = a.n + b.n - lo.n
                    ELSE lo = a /\ hi = b

\* a kept row whose bounds came in as (5, "4") leaves as (4, 5)
C6_Witness ==
  /\ pc = "return"
  /\ ~out.raised
  /\ \E k \in DOMAIN SurvivingInput :
       /\ CellOf(inp.columns, SurvivingInput[k], <<"s", "a", "l", "a", "r", "y", "_", "m", "i", "n">>) = NumCell(5)
       /\ CellOf(inp.columns, SurvivingInput[k], <<"s", "a", "l", "a", "r", "y", "_", "m", "a", "x">>) = StrCell(<<"4">>)
       /\ OutCell(out.rows[k], <<"s", "a", "l", "a", "r", "y", "_", "m", "i", "n">>) = NumCell(4)
       /\ OutCell(out.rows[k], <<"s", "a", "l", "a", "r", "y", "_", "m", "a", "x">>) = NumCell(5)

(***************************************************************************)
(* app/utils.py: get_company_intel and get_data_freshness                  *)
(*                                                                         *)
(* Timestamps are whole minutes.  A date_scraped cell is what              *)
(* pd.to_datetime(errors="coerce") makes of it: a timestamp, or NaT.       *)
(***************************************************************************)
\* Bound of the model: rows of the corpus handed to get_company_intel
MaxIntelRows == 3

Hour == 60
Day  == 24 * Hour

Stamp(t) == [ok |-> TRUE, t |-> t]
NaT      == [ok |-> FALSE, t |-> 0]

\* pd.Timestamp.now() at the call
Clock == { 30 * Day, 30 * Day + 12 * Hour }

\* date_scraped values around the window edges of the first clock reading
IntelStamps ==
  { Stamp(30 * Day - 14 * Day - 1), Stamp(30 * Day - 14 * Day),
    Stamp(30 * Day - 7 * Day - 1), Stamp(30 * Day - 7 * Day),
    Stamp(30 * Day), Stamp(30 * Day + Day), NaT }

Companies == {"Acme", "Beta"}

IntelRows == [company : Companies, date_scraped : IntelStamps]

\* mutant: the two branches for prev_count == 0 are missing
TrendNoZeroCase(recent_count, prev_count) ==
  IF recent_count > prev_count
    THEN [trend |-> "up", trend_delta |-> recent_count - prev_count]
  ELSE IF recent_count < prev_count
    THEN [trend |-> "down", trend_delta |-> prev_count - recent_count]
  ELSE [trend |-> "stable", trend_delta |-> 0]

\* mutant: the delta of a fall keeps its sign
TrendSignedDelta(recent_count, prev_count) ==
  IF prev_count = 0 /\ recent_count > 0
    THEN [trend |-> "up", trend_delta |-> recent_count]
  ELSE IF prev_count = 0 /\ recent_count = 0
    THEN [trend |-> "unknown", trend_delta |-> 0]
  ELSE IF recent_count > prev_count
    THEN [trend |-> "up", trend_delta |-> recent_count - prev_count]
  ELSE IF recent_count < prev_count
    THEN [trend |-> "down", trend_delta |-> recent_count - prev_count]
  ELSE [trend |-> "stable", trend_delta |-> 0]

\* lines 684-693, from the initial values of lines 670-671
Trend(recent_count, prev_count) ==
  IF prev_count = 0 /\ recent_count > 0
    THEN [trend |-> "up", trend_delta |-> recent_count]
  ELSE IF prev_count = 0 /\ recent_count = 0
    THEN [trend |-> "unknown", trend_delta |-> 0]
  ELSE IF recent_count > prev_count
    THEN [trend |-> "up", trend_delta |-> recent_count - prev_count]
  ELSE IF recent_count < prev_count
    THEN [trend |-> "down", trend_delta |-> prev_count - recent_count]
  ELSE [trend |-> "stable", trend_delta |-> 0]

\* lines 633-693 and the counts of the returned dict; the role, location and
\* experience breakdowns (lines 695-718) do not enter these fields
get_company_intel(company_name, df, has_dates, now) ==
  IF df = <<>> \/ ~\E k \in DOMAIN df : df[k].company = company_name
    THEN [error |-> TRUE, total_openings |-> 0, trend |-> "unknown",
          trend_delta |-> 0, recent_count |-> 0, prev_count |-> 0]
    ELSE
      LET co_df        == SelectSeq(df, LAMBDA r : r.company = company_name)
          week1_start  == now - 7 * Day
          week2_start  == now - 14 * Day
          recent_count ==
            IF has_dates
              THEN Len(SelectSeq(co_df, LAMBDA r : /\ r.date_scraped.ok
                                                  /\ r.date_scraped.t >= week1_start))
              ELSE 0
          prev_count   ==
            IF has_dates
              THEN Len(SelectSeq(co_df, LAMBDA r : /\ r.date_scraped.ok
                                                  /\ r.date_scraped.t >= week2_start
                                                  /\ r.date_scraped.t < week1_start))
              ELSE 0
          tr           == IF has_dates THEN Trend(recent_count, prev_count)
                          ELSE [trend |-> "unknown", trend_delta |-> 0]
      IN  [error |-> FALSE, total_openings |-> Len(co_df), trend |-> tr.trend,
           trend_delta |-> tr.trend_delta, recent_count |-> recent_count,
           prev_count |-> prev_count]

InitIntel ==
  /\ ScraperUnused
  /\ pc = "call"
  /\ \E df \in SeqsUpTo(IntelRows, MaxIntelRows), company_name \in Companies,
        has_dates \in BOOLEAN, now \in Clock :
       inp = [df |-> df, company_name |-> company_name,
              has_dates |-> has_dates, now |-> now]
  /\ out = <<>>

GetCompanyIntel ==
  /\ pc = "call"
  /\ out' = get_company_intel(inp.company_name, inp.df, inp.has_dates, inp.now)
  /\ pc' = "return"
  /\ UNCHANGED inp
  /\ UNCHANGED scraperVars

NextIntel == GetCompanyIntel

SpecIntel == InitIntel /\ [][NextIntel]_vars

\* C7: the trend follows from the two counts by the five rules of the
\* specification, with delta 0 for "stable" and delta = recent for the rise
\* from nothing.
C7_TrendClassification ==
  (pc = "return" /\ ~out.error /\ inp.has_dates) =>
    LET recent == out.recent_count
        prior  == out.prev_count
    IN  /\ recent > prior => out.trend = "up"
        /\ recent < prior => out.trend = "down"
        /\ (recent = prior /\ prior > 0) => (out.trend = "stable" /\ out.trend_delta = 0)
        /\ (prior = 0 /\ recent > 0) => (out.trend = "up" /\ out.trend_delta = recent)
        /\ (prior = 0 /\ recent = 0) => out.trend = "unknown"

\* the company posted as much in the recent week as in the prior one
C7_Witness ==
  /\ pc = "return"
  /\ ~out.error
  /\ inp.has_dates
  /\ out.recent_count = out.prev_count
  /\ out.recent_count > 0
  /\ out.trend = "stable"

\* the company's postings dated in [from, to)
PostingsIn(from, to) ==
  { k \in DOMAIN inp.df :
      /\ inp.df[k].company = inp.company_name
      /\ inp.df[k].date_scraped.ok
      /\ from <= inp.df[k].date_scraped.t
      /\ inp.df[k].date_scraped.t < to }

\* C8: recent_count counts the company's postings dated in [now-7d, now) and
\* prev_count those in [now-14d, now-7d); a posting dated at or after now, or
\* before now-14d, is in neither.
C8_HalfOpenWindows ==
  (pc = "return" /\ ~out.error /\ inp.has_dates) =>
    /\ out.recent_count = Cardinality(PostingsIn(inp.now - 7 * Day, inp.now))
    /\ out.prev_count = Cardinality(PostingsIn(inp.now - 14 * Day, inp.now - 7 * Day))

\* a posting of the company dated at or after now, outside [now-7d, now),
\* has been counted
C8_Witness ==
  /\ pc = "return"
  /\ ~out.error
  /\ inp.has_dates
  /\ \E k \in DOMAIN inp.df :
       /\ inp.df[k].company = inp.company_name
       /\ inp.df[k].date_scraped.ok
       /\ inp.df[k].date_scraped.t >= inp.now

(***************************************************************************)
(* get_data_freshness(df).  The corpus is its date_scraped column; the     *)
(* call is made on a corpus and then, at the same clock reading, on a      *)
(* second corpus that differs from it in one row.                          *)
(***************************************************************************)
FreshStamps ==
  { Stamp(30 * Day + Hour), Stamp(30 * Day), Stamp(30 * Day - 3),
    Stamp(30 * Day - 6 * Hour), Stamp(30 * Day - 6 * Hour - 1),
    Stamp(30 * Day - Day), Stamp(30 * Day - Day - 1), NaT }

\* mutant: the earliest date instead of the latest
LatestIsEarliest(dates) == CHOOSE t \in dates : \A u \in dates : t <= u

\* line 270: dates.max()
Latest(dates) == CHOOSE t \in dates : \A u \in dates : u <= t

\* mutant: the difference taken the other way round
MinutesAgoReversed(now, latest) == latest - now

\* line 272: now - latest, in minutes
MinutesAgo(now, latest) == now - latest

\* line 293: round(hours_ago, 1), in tenths of an hour.  6 minutes are one
\* tenth; a value half-way between two tenths goes to either, as the binary
\* floating-point value of hours_ago lies on either side of the tie.
RoundTenths(m) ==
  LET q == m \div 6
      r == m % 6
  IN  IF r < 3 THEN {q} ELSE IF r > 3 THEN {q + 1} ELSE {q, q + 1}

\* lines 284-289
Status(m) ==
  IF m <= 6 * Hour THEN "fresh"
  ELSE IF m <= 24 * Hour THEN "stale"
  ELSE "old"

UnknownFreshness == [status |-> "unknown", known |-> FALSE, hours_ago |-> 0]

\* lines 259-297: the set of dicts the call can return (status and
\* hours_ago; known is FALSE where hours_ago is None)
get_data_freshness(has_col, df, now) ==
  IF ~has_col \/ df = <<>>
    THEN {UnknownFreshness}
    ELSE
      LET dates == { df[k].t : k \in { j \in DOMAIN df : df[j].ok } }
      IN  IF dates = {}
            THEN {UnknownFreshness}
            ELSE
              LET m == MinutesAgo(now, Latest(dates))
              IN  { [status |-> Status(m), known |-> TRUE, hours_ago |-> h] :
                      h \in RoundTenths(m) }

\* df with one row replaced or one row added
Variants(df) ==
  { [df EXCEPT ![k] = c] : k \in DOMAIN df, c \in FreshStamps }
    \cup (IF Len(df) < MaxRows THEN { Append(df, c) : c \in FreshStamps } ELSE {})

InitFresh ==
  /\ ScraperUnused
  /\ pc = "call"
  /\ \E df \in SeqsUpTo(FreshStamps, MaxRows), has_col \in BOOLEAN, now \in Clock :
       \E later \in Variants(df) :
         inp = [df |-> df, later |-> later, has_col |-> has_col, now |-> now]
  /\ out = <<>>

GetDataFreshness ==
  /\ pc = "call"
  /\ \E r \in get_data_freshness(inp.has_col, inp.df, inp.now) : out' = <<r>>
  /\ pc' = "again"
  /\ UNCHANGED inp
  /\ UNCHANGED scraperVars

GetDataFreshnessLater ==
  /\ pc = "again"
  /\ \E r \in get_data_freshness(inp.has_col, inp.later, inp.now) :
       out' = Append(out, r)
  /\ pc' = "return"
  /\ UNCHANGED inp
  /\ UNCHANGED scraperVars

NextFresh == GetDataFreshness \/ GetDataFreshnessLater

SpecFresh == InitFresh /\ [][NextFresh]_vars

\* the parseable dates of a corpus
ParseableDates(df) == { c.t : c \in { df[k] : k \in DOMAIN df } \ {NaT} }

\* the latest parseable date of a corpus that has one
MaxDate(df) == CHOOSE t \in ParseableDates(df) : \A u \in ParseableDates(df) : u <= t

\* what the specification reports for a corpus
SpecStatus(has_col, df, now) ==
  IF ~has_col \/ df = <<>> \/ ParseableDates(df) = {} THEN "unknown"
  ELSE IF now - MaxDate(df) <= 6 * Hour THEN "fresh"
  ELSE IF now - MaxDate(df) <= 24 * Hour THEN "stale"
  ELSE "old"

\* C9: the status is "fresh" up to 6 hours since the latest date_scraped,
\* "stale" above 6 and up to 24 hours, "old" above 24 hours, and "unknown"
\* for an empty corpus, one without the column or without a parseable date;
\* the reported hours_ago is now - max(date_scraped) to the nearest tenth.
C9_FreshnessStatus ==
  (pc \in {"again", "return"}) =>
    /\ out[1].status = SpecStatus(inp.has_col, inp.df, inp.now)
    /\ out[1].known <=> out[1].status # "unknown"
    /\ out[1].known =>
         LET d == 6 * out[1].hours_ago - (inp.now - MaxDate(inp.df))
         IN  -3 <= d /\ d <= 3

\* a corpus whose latest date is exactly 6 hours old although an older and
\* an unparseable date may be present
C9_Witness ==
  /\ pc = "again"
  /\ Len(inp.df) > 1
  /\ inp.has_col
  /\ ParseableDates(inp.df) # {}
  /\ inp.now - MaxDate(inp.df) = 6 * Hour
  /\ \E k \in DOMAIN inp.df : inp.df[k].ok /\ inp.df[k].t < MaxDate(inp.df)
  /\ out[1].status = "fresh"

\* C10: of two corpora that differ in one row, read at the same clock, the
\* one with the strictly later latest date_scraped reports an hours_ago
\* that is not greater.
C10_FreshnessMonotone ==
  (/\ pc = "return"
   /\ out[1].known
   /\ out[2].known
   /\ MaxDate(inp.later) > MaxDate(inp.df))
    => out[2].hours_ago <= out[1].hours_ago

\* the later corpus is strictly fresher and both calls have reported
C10_Witness ==
  /\ pc = "return"
  /\ out[1].known
  /\ out[2].known
  /\ MaxDate(inp.later) > MaxDate(inp.df)
  /\ out[2].hours_ago < out[1].hours_ago

(***************************************************************************)
(* app/utils.py: education and experience analytics                        *)
(*                                                                         *)
(* A pattern of DEGREE_PATTERNS is a set of alternatives; an alternative   *)
(* \b w \b (?! s) is the set of the words w its optional parts can spell,  *)
(* and the text s that must not follow (neg, after one or more whitespace  *)
(* characters when ws), <<>> when it has no lookahead.                     *)
(***************************************************************************)
Alt(lits, ws, neg) == [lits |-> lits, ws |-> ws, neg |-> neg]

\* the texts of [\s-]? : nothing, one whitespace character, or a hyphen
OptSep == { <<>>, <<"-">> } \cup { <<c>> : c \in Whitespace }

\* lines 524-538
DEGREE_PATTERNS ==
  << [alts  |-> { Alt({ <<"p", "h", "d">>, <<"d", "o", "c", "t", "o", "r">>, <<"d", "o", "c", "t", "o", "r", "a", "t", "e">> }, FALSE, <<>>) },
      label |-> "PhD / Doctorate"],
     [alts  |-> { Alt({ <<"m", "b", "a">> }, FALSE, <<>>) },
      label |-> "MBA"],
     [alts  |-> { Alt({ <<"m", "s", "c">>, <<"m", ".", "s", "c">>, <<"m", "a", "s", "t", "e", "r">>, <<"m", "a", "s", "t", "e", "r", "s">>, <<"m", "s">>, <<"m", ".", "s">> }, FALSE, <<>>) },
      label |-> "MSc / Masters"],
     [alts  |-> { Alt({ <<"m", "a">>, <<"m", ".", "a">> }, FALSE, <<"n", "a", "g", "e", "m", "e", "n", "t">>) },
      label |-> "MA"],
     [alts  |-> { Alt({ <<"b", "s", "c">>, <<"b", ".", "s", "c">>, <<"b", "s">>, <<"b", ".", "s">> }, FALSE, <<>>) },
      label |-> "BSc / BS"],
     [alts  |-> { Alt({ <<"b", "b", "a">>, <<"b", ".", "b", "a">> }, FALSE, <<>>) },
      label |-> "BBA"],
     [alts  |-> { Alt({ <<"b", "a">>, <<"b", ".", "a">> }, FALSE, <<"n", "k">>) },
      label |-> "BA"],
     [alts  |-> { Alt({ <<"b", "e", "n", "g">>, <<"b", ".", "e", "n", "g">>, <<"b", "t", "e", "c", "h">>, <<"b", ".", "t", "e", "c", "h">> }, FALSE, <<>>) },
      label |-> "B.Eng / B.Tech"],
     [alts  |-> { Alt({ <<"l", "l", "b">>, <<"l", "a", "w">> }, FALSE, <<>>) },
      label |-> "LLB / Law"],
     [alts  |-> { Alt({ <<"m", "b", "b", "s">> }, FALSE, <<>>), Alt({ <<"m", "d">> }, TRUE, <<"d", "e", "g", "r", "e", "e">>) },
      label |-> "MBBS / MD"],
     [alts  |-> { Alt({ <<"d", "i", "p", "l", "o", "m", "a">> }, FALSE, <<>>) },
      label |-> "Diploma"],
     [alts  |-> { Alt({ <<"h", "s", "c">>, <<"i", "n", "t", "e", "r", "m", "e", "d", "i", "a", "t", "e">> }
                        \cup { <<"a">> \o sep \o lv : sep \in OptSep, lv \in { <<"l", "e", "v", "e", "l">>, <<"l", "e", "v", "e", "l", "s">> } },
                      FALSE, <<>>) },
      label |-> "HSC / A-Level"],
     [alts  |-> { Alt({ <<"s", "s", "c">>, <<"m", "a", "t", "r", "i", "c">>, <<"m", "a", "t", "r", "i", "c", "u", "l", "a", "t", "i", "o", "n">> }
                        \cup { <<"o">> \o sep \o lv : sep \in OptSep, lv \in { <<"l", "e", "v", "e", "l">>, <<"l", "e", "v", "e", "l", "s">> } },
                      FALSE, <<>>) },
      label |-> "SSC / O-Level"] >>

NotSpecified == "Not Specified"

\* \w of the re module, on the characters of the model
WordChar(c) ==
  \/ \E k \in DOMAIN LowerCase : LowerCase[k] = c \/ UpperCase[k] = c
  \/ IsDigit(c)
  \/ c = "_"

\* \b between the characters i-1 and i of text
AtBoundary(text, i) ==
  (i > 1 /\ WordChar(text[i - 1])) # (i <= Len(text) /\ WordChar(text[i]))

\* the literal lit stands at position i of text
LitAt(text, i, lit) ==
  i + Len(lit) - 1 <= Len(text) /\ SubSeq(text, i, i + Len(lit) - 1) = lit

\* the text of a lookahead stands at position j
LookaheadAt(text, j, ws, neg) ==
  /\ neg # <<>>
  /\ \E n \in (IF ws THEN 1 ELSE 0) .. (IF ws THEN Len(text) ELSE 0) :
       /\ \A k \in j .. (j + n - 1) : k <= Len(text) /\ text[k] \in Whitespace
       /\ LitAt(text, j + n, neg)

\* re.search(pattern, text)
ReSearch(alts, text) ==
  \E a \in alts : \E lit \in a.lits : \E i \in 1 .. Len(text) :
    /\ LitAt(text, i, lit)
    /\ AtBoundary(text, i)
    /\ AtBoundary(text, i + Len(lit))
    /\ ~LookaheadAt(text, i + Len(lit), a.ws, a.neg)

\* mutant: the loop has no break, the last matching rule wins
RECURSIVE FirstLabelNoBreak(_, _, _)
FirstLabelNoBreak(text_lower, k, found) ==
  IF k > Len(DEGREE_PATTERNS) THEN found
  ELSE IF ReSearch(DEGREE_PATTERNS[k].alts, text_lower)
         THEN FirstLabelNoBreak(text_lower, k + 1, DEGREE_PATTERNS[k].label)
         ELSE FirstLabelNoBreak(text_lower, k + 1, found)

\* lines 545-549: the loop over DEGREE_PATTERNS from rule k on
RECURSIVE FirstLabel(_, _, _)
FirstLabel(text_lower, k, found) ==
  IF k > Len(DEGREE_PATTERNS) THEN found
  ELSE IF ReSearch(DEGREE_PATTERNS[k].alts, text_lower)
         THEN DEGREE_PATTERNS[k].label
         ELSE FirstLabel(text_lower, k + 1, found)

\* lines 543-550 for one cell: fillna(""), str, lower, the loop
DegreeOf(cell) ==
  FirstLabel(Lower(IF cell = Null THEN <<>> ELSE cell), 1, NotSpecified)

\* skills texts of the model; Null is a missing value
SkillsTexts ==
  { <<"M", "B", "A", ",", " ", "P", "h", "D", " ", "p", "r", "e", "f", "e", "r", "r", "e", "d">>, <<"D", "i", "p", "l", "o", "m", "a", " ", "o", "r", " ", "B", ".", "S", "c">>, <<"E", "d", "u", "c", "a", "t", "i", "o", "n", ":", " ", "B", "S", "c", " ", "C", "S", "E">>,
    <<"M", "a", "n", "a", "g", "e", "m", "e", "n", "t">>, <<"M", "D", " ", "d", "e", "g", "r", "e", "e">>, <<"O", " ", "L", "e", "v", "e", "l", "/", "A", "-", "L", "e", "v", "e", "l", "s">>, <<"E", "x", "p", "e", "r", "i", "e", "n", "c", "e", ":", " ", "2", " ", "y", "e", "a", "r", "s">>,
    <<"E", "x", "p", "e", "r", "i", "e", "n", "c", "e", ":", " ", "6", " ", "y", "e", "a", "r", "s", ",", " ", "E", "d", "u", "c", "a", "t", "i", "o", "n", ":", " ", "M", "B", "A">>, <<>>, Null }

\* skills texts of the rows handed to get_industry_education_matrix
MatrixTexts == { <<"P", "h", "D">>, <<"M", "B", "A">>, <<"M", ".", "S", "c">>, <<"B", "S", "c">>, <<"B", "B", "A">>, <<"D", "i", "p", "l", "o", "m", "a">>, <<"H", "S", "C">>, <<"n", "/", "a">> }

DegreeTable == [ cell \in SkillsTexts \cup MatrixTexts |-> DegreeOf(cell) ]

\* lines 541-551
extract_degrees(series) == [k \in DOMAIN series |-> DegreeTable[series[k]]]

InitDegrees ==
  /\ ScraperUnused
  /\ pc = "call"
  /\ inp \in SeqsUpTo(SkillsTexts, MaxRows)
  /\ out = <<>>

ExtractDegrees ==
  /\ pc = "call"
  /\ out' = extract_degrees(inp)
  /\ pc' = "return"
  /\ UNCHANGED inp
  /\ UNCHANGED scraperVars

NextDegrees == ExtractDegrees

SpecDegrees == InitDegrees /\ [][NextDegrees]_vars

\* the text of a cell as the rules see it
LoweredText(cell) == Lower(IF cell = Null THEN <<>> ELSE cell)

\* the rules that match a cell
MatchingRules(cell) ==
  { k \in DOMAIN DEGREE_PATTERNS : ReSearch(DEGREE_PATTERNS[k].alts, LoweredText(cell)) }

MatchingRulesTable == [ cell \in SkillsTexts |-> MatchingRules(cell) ]

\* the first position of text where one of the rule's words stands
FirstWordPos(k, text) ==
  CHOOSE i \in 1 .. Len(text) :
    /\ \E a \in DEGREE_PATTERNS[k].alts : \E lit \in a.lits : LitAt(text, i, lit)
    /\ \A j \in 1 .. (i - 1) :
         ~\E a \in DEGREE_PATTERNS[k].alts : \E lit \in a.lits : LitAt(text, j, lit)

\* C11: each text gets the label of the matching rule that comes first in
\* DEGREE_PATTERNS, wherever in the text the matches are, "Not Specified"
\* when no rule matches, and equal texts get equal labels.
C11_FirstRuleWins ==
  pc = "return" =>
    /\ Len(out) = Len(inp)
    /\ \A k \in DOMAIN inp :
         LET rules == MatchingRulesTable[inp[k]]
         IN  IF rules = {} THEN out[k] = NotSpecified
             ELSE out[k] = DEGREE_PATTERNS[CHOOSE r \in rules : \A q \in rules : r <= q].label
    /\ \A k, m \in DOMAIN inp : inp[k] = inp[m] => out[k] = out[m]

\* a text in which a lower rule matches earlier in the text than the rule
\* that wins, and a text no rule matches
C11_Witness ==
  /\ pc = "return"
  /\ \E k \in DOMAIN inp :
       /\ inp[k] = <<"M", "B", "A", ",", " ", "P", "h", "D", " ", "p", "r", "e", "f", "e", "r", "r", "e", "d">>
       /\ MatchingRulesTable[inp[k]] = {1, 2}
       /\ FirstWordPos(2, LoweredText(inp[k])) < FirstWordPos(1, LoweredText(inp[k]))
       /\ out[k] = "PhD / Doctorate"
  /\ \E k \in DOMAIN inp : inp[k] = <<"M", "a", "n", "a", "g", "e", "m", "e", "n", "t">> /\ out[k] = NotSpecified

(***************************************************************************)
(* _extract_exp_years and bucket_experience                                *)
(***************************************************************************)
\* the value a call returns or a Series holds: None, a float, or NaN
YearsNone   == [kind |-> "none", n |-> 0]
Years(n)    == [kind |-> "num", n |-> n]
YearsNaN    == [kind |-> "nan", n |-> 0]

\* the labels of lines 579-583; their dash is an en dash in the source
EntryLevel  == "Entry Level (0-2 yrs)"
MidLevel    == "Mid Level (3-5 yrs)"
SeniorLevel == "Senior Level (6+ yrs)"

\* \s* from position j: the position of the next character that is not
\* whitespace
RECURSIVE SkipWs(_, _)
SkipWs(text, j) ==
  IF j <= Len(text) /\ text[j] \in Whitespace THEN SkipWs(text, j + 1) ELSE j

\* \d+ from position j, taken greedily: the position after the run of digits
RECURSIVE SkipDigits(_, _)
SkipDigits(text, j) ==
  IF j <= Len(text) /\ IsDigit(text[j]) THEN SkipDigits(text, j + 1) ELSE j

\* \s*\+?\s*year (IGNORECASE) at position j
PlusYearAt(text, j) ==
  LET a == SkipWs(text, j)
      b == IF a <= Len(text) /\ text[a] = "+" THEN SkipWs(text, a + 1) ELSE a
  IN  LitAt(Lower(text), b, <<"y", "e", "a", "r">>) \/ LitAt(Lower(text), a, <<"y", "e", "a", "r">>)

\* \s*(?:\-\s*\d+)?\s*\+?\s*year at position j.  A shorter \d+ of the group
\* is followed by a digit, on which the rest of the pattern fails.
RestAt(text, j) ==
  LET a == SkipWs(text, j)
      b == IF a <= Len(text) /\ text[a] = "-" THEN SkipWs(text, a + 1) ELSE a
      c == SkipDigits(text, b)
  IN  \/ PlusYearAt(text, a)
      \/ a <= Len(text) /\ text[a] = "-" /\ c > b /\ PlusYearAt(text, c)

\* the positions at which _EXP_REGEX matches: \d+ taken from i up to some
\* position e, the rest of the pattern after it
MatchStarts(text) ==
  { i \in 1 .. Len(text) :
      /\ IsDigit(text[i])
      /\ \E e \in i .. (SkipDigits(text, i) - 1) : RestAt(text, e + 1) }

\* mutant: group(1) is the last number before "year" of the match
extract_exp_years_upper(text) ==
  LET s == IF text = Null THEN <<"n", "a", "n">> ELSE text
  IN  IF MatchStarts(s) = {} THEN YearsNone
      ELSE LET i == CHOOSE p \in MatchStarts(s) : \A q \in MatchStarts(s) : p <= q
               e == SkipDigits(s, i)
               a == SkipWs(s, e)
               b == IF a <= Len(s) /\ s[a] = "-" THEN SkipWs(s, a + 1) ELSE a
           IN  IF b > a /\ SkipDigits(s, b) > b
                 THEN Years(DigitsValue(SubSeq(s, b, SkipDigits(s, b) - 1)))
                 ELSE Years(DigitsValue(SubSeq(s, i, e - 1)))

\* lines 568-573: search finds the leftmost match, \d+ is greedy
extract_exp_years(text) ==
  LET s == IF text = Null THEN <<"n", "a", "n">> ELSE text
  IN  IF MatchStarts(s) = {} THEN YearsNone
      ELSE LET i == CHOOSE p \in MatchStarts(s) : \A q \in MatchStarts(s) : p <= q
               e == CHOOSE p \in i .. (SkipDigits(s, i) - 1) :
                      /\ RestAt(s, p + 1)
                      /\ \A q \in (p + 1) .. (SkipDigits(s, i) - 1) : ~RestAt(s, q + 1)
           IN  Years(DigitsValue(SubSeq(s, i, e)))

\* mutant: the bounds of the buckets are exclusive
bucket_experience_below(years) ==
  IF years.kind = "none" THEN NotSpecified
  ELSE IF years.kind = "num" /\ years.n < 2 THEN EntryLevel
  ELSE IF years.kind = "num" /\ years.n < 5 THEN MidLevel
  ELSE SeniorLevel

\* lines 576-583; every comparison with NaN is false
bucket_experience(years) ==
  IF years.kind = "none" THEN NotSpecified
  ELSE IF years.kind = "num" /\ years.n <= 2 THEN EntryLevel
  ELSE IF years.kind = "num" /\ years.n <= 5 THEN MidLevel
  ELSE SeniorLevel

\* experience texts of the model; Null is a missing value
ExpTexts ==
  { <<"2", " ", "y", "e", "a", "r", "s">>, <<"3", " ", "-", " ", "5", " ", "Y", "e", "a", "r", "s">>, <<"1", "-", "7", " ", "y", "e", "a", "r", "s">>, <<"1", "2", "+", " ", "Y", "E", "A", "R", "S", ",", " ", "1", " ", "y", "e", "a", "r", " ", "a", "b", "r", "o", "a", "d">>,
    <<"A", "g", "e", " ", "3", "0", ",", " ", "4", " ", "y", "e", "a", "r", "s">>, <<"0", " ", "y", "e", "a", "r">>, <<"F", "r", "e", "s", "h", "e", "r">>, Null }

ExpYearsTable == [ text \in ExpTexts \cup SkillsTexts |-> extract_exp_years(text) ]

InitExperience ==
  /\ ScraperUnused
  /\ pc = "call"
  /\ inp \in SeqsUpTo(ExpTexts, MaxRows)
  /\ out = <<>>

\* bucket_experience(_extract_exp_years(text)) for each text
BucketExperience ==
  /\ pc = "call"
  /\ out' = [k \in DOMAIN inp |->
               [years  |-> ExpYearsTable[inp[k]],
                bucket |-> bucket_experience(ExpYearsTable[inp[k]])]]
  /\ pc' = "return"
  /\ UNCHANGED inp
  /\ UNCHANGED scraperVars

NextExperience == BucketExperience

SpecExperience == InitExperience /\ [][NextExperience]_vars

\* text from position j reads: optional whitespace, optionally "-" and a
\* number, optionally "+", then "year", in any letter case
ReadsAsYears(text, j) ==
  \E a, b, c, y \in j .. (Len(text) + 1) :
    /\ a <= b /\ b <= c /\ c <= y
    /\ \A k \in j .. (a - 1) : text[k] \in Whitespace
    /\ \/ b = a
       \/ /\ b > a + 1
          /\ text[a] = "-"
          /\ \E m \in (a + 1) .. (b - 1) :
               /\ \A k \in (a + 1) .. (m - 1) : text[k] \in Whitespace
               /\ \A k \in m .. (b - 1) : IsDigit(text[k])
    /\ \A k \in b .. (c - 1) : text[k] \in Whitespace
    /\ \/ y = c
       \/ y > c /\ text[c] = "+" /\ \A k \in (c + 1) .. (y - 1) : text[k] \in Whitespace
    /\ y + 3 <= Len(text)
    /\ Lower(SubSeq(text, y, y + 3)) = <<"y", "e", "a", "r">>

\* the integers of a text that precede "year(s)": where each starts, and
\* its value
IntegersBeforeYear(text) ==
  { <<i, DigitsValue(SubSeq(text, i, e))>> : <<i, e>> \in
      { p \in (1 .. Len(text)) \X (1 .. Len(text)) :
          /\ p[1] <= p[2]
          /\ \A k \in p[1] .. p[2] : IsDigit(text[k])
          /\ p[1] = 1 \/ ~IsDigit(text[p[1] - 1])
          /\ ReadsAsYears(text, p[2] + 1) } }

IntegersBeforeYearTable ==
  [ text \in ExpTexts \ {Null} |-> IntegersBeforeYear(text) ]

\* C13: the bucket follows from the first integer that precedes "year(s)",
\* the lower bound of an "N-M years" range: 0-2 Entry, 3-5 Mid, 6 or more
\* Senior; a text without such an integer gives "Not Specified".
C13_BucketFromFirstInteger ==
  pc = "return" =>
    \A k \in DOMAIN inp :
      LET found == IF inp[k] = Null THEN {} ELSE IntegersBeforeYearTable[inp[k]]
      IN  IF found = {} THEN out[k].bucket = NotSpecified
          ELSE LET first == CHOOSE f \in found : \A g \in found : f[1] <= g[1]
                   N     == first[2]
               IN  /\ out[k].years = Years(N)
                   /\ N <= 2 => out[k].bucket = EntryLevel
                   /\ (3 <= N /\ N <= 5) => out[k].bucket = MidLevel
                   /\ N >= 6 => out[k].bucket = SeniorLevel

\* a range whose two bounds fall in different buckets, and a text with a
\* number that does not precede "year"
C13_Witness ==
  /\ pc = "return"
  /\ \E k \in DOMAIN inp : inp[k] = <<"1", "-", "7", " ", "y", "e", "a", "r", "s">> /\ out[k].bucket = EntryLevel
  /\ \E k \in DOMAIN inp : inp[k] = <<"A", "g", "e", " ", "3", "0", ",", " ", "4", " ", "y", "e", "a", "r", "s">> /\ out[k].bucket = MidLevel

\* sort_values(ascending=False) as value_counts() and skill_frequency call
\* it, with the default kind "quicksort", which is not stable: every
\* arrangement of the rows in which the counts do not increase
RECURSIVE SortValuesDescending(_)
SortValuesDescending(rows) ==
  IF rows = {} THEN { <<>> }
  ELSE UNION { { <<x>> \o rest : rest \in SortValuesDescending(rows \ {x}) } :
                 x \in { r \in rows : \A q \in rows : q[2] <= r[2] } }

(***************************************************************************)
(* get_degree_counts and get_experience_level_counts.  A frequency table   *)
(* is the function from its labels to their counts.                        *)
(***************************************************************************)
\* Series.value_counts() of the values other than "Not Specified"
ValueCounts(series) ==
  [ l \in { series[k] : k \in DOMAIN series } \ {NotSpecified} |->
      Cardinality({ k \in DOMAIN series : series[k] = l }) ]

\* lines 554-565
get_degree_counts(has_skills, skills) ==
  IF ~has_skills THEN << >>
  ELSE ValueCounts(extract_degrees(skills))

\* Series.apply(f) for an f that returns float or None: when some value is
\* a float the result is a float64 Series, in which None has become NaN;
\* when every value is None the Series holds the None objects
ApplyResult(values) ==
  IF \E k \in DOMAIN values : values[k].kind = "num"
    THEN [k \in DOMAIN values |->
            IF values[k].kind = "none" THEN YearsNaN ELSE values[k]]
    ELSE values

\* lines 586-602
get_experience_level_counts(has_skills, skills) ==
  IF ~has_skills THEN << >>
  ELSE LET years   == ApplyResult([k \in DOMAIN skills |-> ExpYearsTable[skills[k]]])
           buckets == [k \in DOMAIN years |-> bucket_experience(years[k])]
           counts  == ValueCounts(buckets)
       IN  [ l \in {EntryLevel, MidLevel, SeniorLevel} |->
               IF l \in DOMAIN counts THEN counts[l] ELSE 0 ]

InitCounts ==
  /\ ScraperUnused
  /\ pc = "call"
  /\ \E has_skills \in BOOLEAN, skills \in SeqsUpTo(SkillsTexts, MaxRows) :
       inp = [has_skills |-> has_skills, skills |-> skills]
  /\ out = <<>>

\* lines 559-564: the rows of the table get_degree_counts returns, in one of
\* the orders value_counts() may leave them
degree_counts_rows(has_skills, skills) ==
  LET counts == get_degree_counts(has_skills, skills)
  IN  SortValuesDescending({ <<l, counts[l]>> : l \in DOMAIN counts })

GetDegreeCounts ==
  /\ pc = "call"
  /\ \E rows \in degree_counts_rows(inp.has_skills, inp.skills) :
       out' = [of |-> "degree", rows |-> rows,
               counts |-> get_degree_counts(inp.has_skills, inp.skills)]
  /\ pc' = "return"
  /\ UNCHANGED inp
  /\ UNCHANGED scraperVars

GetExperienceLevelCounts ==
  /\ pc = "call"
  /\ out' = [of |-> "experience",
             counts |-> get_experience_level_counts(inp.has_skills, inp.skills)]
  /\ pc' = "return"
  /\ UNCHANGED inp
  /\ UNCHANGED scraperVars

NextCounts == GetDegreeCounts \/ GetExperienceLevelCounts

SpecCounts == InitCounts /\ [][NextCounts]_vars

\* the sum of the counts of a table
RECURSIVE SumCounts(_, _)
SumCounts(counts, labels) ==
  IF labels = {} THEN 0
  ELSE LET l == CHOOSE x \in labels : TRUE
       IN  counts[l] + SumCounts(counts, labels \ {l})

\* the rows of the corpus with a degree tag
TaggedRows ==
  IF inp.has_skills
    THEN { k \in DOMAIN inp.skills : DegreeTable[inp.skills[k]] # NotSpecified }
    ELSE {}

\* the rows of the corpus with an experience bucket
BucketedRows ==
  IF inp.has_skills
    THEN { k \in DOMAIN inp.skills :
             bucket_experience(ExpYearsTable[inp.skills[k]]) # NotSpecified }
    ELSE {}

\* C12: neither table has "Not Specified" as a label, and its counts add up
\* to the number of rows whose degree tag, or experience bucket, is not
\* "Not Specified".
C12_TablesExcludeNotSpecified ==
  pc = "return" =>
    /\ NotSpecified \notin DOMAIN out.counts
    /\ out.of = "degree" =>
         SumCounts(out.counts, DOMAIN out.counts) = Cardinality(TaggedRows)
    /\ out.of = "experience" =>
         SumCounts(out.counts, DOMAIN out.counts) = Cardinality(BucketedRows)

\* the degree half of C12 on its own
C12_DegreeTableExcludesNotSpecified ==
  (pc = "return" /\ out.of = "degree") =>
    /\ NotSpecified \notin DOMAIN out.counts
    /\ SumCounts(out.counts, DOMAIN out.counts) = Cardinality(TaggedRows)

\* the experience table of a corpus in which one text names its years and
\* another names none
C12_Witness ==
  /\ pc = "return"
  /\ out.of = "experience"
  /\ inp.has_skills
  /\ \E k, m \in DOMAIN inp.skills :
       /\ ExpYearsTable[inp.skills[k]].kind = "num"
       /\ ExpYearsTable[inp.skills[m]].kind = "none"
  /\ out.counts[SeniorLevel] > 0

(***************************************************************************)
(* scraper.py: detect_industry on its own                                  *)
(***************************************************************************)
IndustryTitles ==
  { <<"B", "a", "n", "k", " ", "S", "o", "f", "t", "w", "a", "r", "e", " ", "O", "f", "f", "i", "c", "e", "r">>, <<"A", "u", "d", "i", "t", " ", "O", "f", "f", "i", "c", "e", "r">>, <<"S", "t", "a", "f", "f", " ", "N", "u", "r", "s", "e">>, <<"D", "r", "i", "v", "e", "r">>, <<"I", "T">>,
    <<"M", "e", "r", "c", "h", "a", "n", "d", "i", "s", "e", "r">>, <<"H", "R", " ", "E", "x", "e", "c", "u", "t", "i", "v", "e">>, <<"A", "c", "c", "o", "u", "n", "t", "a", "n", "t">>, <<"C", "i", "v", "i", "l", " ", "E", "n", "g", "i", "n", "e", "e", "r">> }

IndustryEducations == { <<>>, <<"M", "B", "A", " ", "i", "n", " ", "M", "a", "r", "k", "e", "t", "i", "n", "g">> }

IndustryCompanies == { <<>>, <<"C", "i", "t", "y", " ", "B", "a", "n", "k">>, <<"A", "c", "m", "e">> }

InitIndustry ==
  /\ ScraperUnused
  /\ pc = "call"
  /\ \E job_title \in IndustryTitles, education \in IndustryEducations,
        company \in IndustryCompanies :
       inp = [job_title |-> job_title, education |-> education, company |-> company]
  /\ out = <<>>

DetectIndustry ==
  /\ pc = "call"
  /\ out' = detect_industry(inp.job_title, inp.education, inp.company)
  /\ pc' = "return"
  /\ UNCHANGED inp
  /\ UNCHANGED scraperVars

NextIndustry == DetectIndustry

SpecIndustry == InitIndustry /\ [][NextIndustry]_vars

\* the text detect_industry searches
IndustryText ==
  Lower(inp.job_title \o <<" ">> \o inp.education \o <<" ">> \o inp.company)

\* the industries one of whose keywords occurs in the text
IndustriesFound ==
  { k \in DOMAIN INDUSTRY_KEYWORDS :
      \E m \in DOMAIN INDUSTRY_KEYWORDS[k].keywords :
        Contains(IndustryText, Lower(INDUSTRY_KEYWORDS[k].keywords[m])) }

\* where in the text a keyword of industry k first occurs
FirstKeywordPos(k) ==
  CHOOSE i \in 1 .. Len(IndustryText) :
    /\ \E m \in DOMAIN INDUSTRY_KEYWORDS[k].keywords :
         LitAt(IndustryText, i, Lower(INDUSTRY_KEYWORDS[k].keywords[m]))
    /\ \A j \in 1 .. (i - 1) :
         ~\E m \in DOMAIN INDUSTRY_KEYWORDS[k].keywords :
            LitAt(IndustryText, j, Lower(INDUSTRY_KEYWORDS[k].keywords[m]))

\* C14: the result is the first industry, in the order of INDUSTRY_KEYWORDS,
\* with a keyword that occurs in the lowercased "title education company",
\* and "General/Other" when there is none; it is one of the ten authored
\* labels or "General/Other".
C14_FirstIndustryWins ==
  pc = "return" =>
    /\ IF IndustriesFound = {} THEN out = GeneralOther
       ELSE out = INDUSTRY_KEYWORDS[CHOOSE k \in IndustriesFound :
                                      \A m \in IndustriesFound : k <= m].industry
    /\ out \in { INDUSTRY_KEYWORDS[k].industry : k \in DOMAIN INDUSTRY_KEYWORDS }
                 \cup {GeneralOther}
    /\ Len(INDUSTRY_KEYWORDS) = 10

\* a keyword of the second industry stands in the text before the keyword of
\* the first industry, which wins
C14_Witness ==
  /\ pc = "return"
  /\ {1, 2} \subseteq IndustriesFound
  /\ FirstKeywordPos(2) < FirstKeywordPos(1)
  /\ out = INDUSTRY_KEYWORDS[1].industry

(***************************************************************************)
(* The scraper and the analytics together                                  *)
(***************************************************************************)
\* the two raw postings of the example: the second repeats the first in
\* lower case, without education and experience
ExampleFirst ==
  RawJob(1, 0, <<"S", "o", "f", "t", "w", "a", "r", "e", " ", "E", "n", "g", "i", "n", "e", "e", "r">>, <<"A", "c", "m", "e">>, <<"S", "y", "l", "h", "e", "t">>, <<"2", " ", "y", "e", "a", "r", "s">>, <<"B", "S", "c", " ", "C", "S", "E">>,
         <<"2", "0", "2", "4", "-", "0", "4", "-", "3", "0", "T", "1", "0", ":", "0", "0", ":", "0", "0">>)

ExampleSecond ==
  RawJob(0, 0, <<"s", "o", "f", "t", "w", "a", "r", "e", " ", "e", "n", "g", "i", "n", "e", "e", "r", " ">>, <<"a", "c", "m", "e">>, <<>>, <<>>, <<>>, <<"2", "0", "2", "4", "-", "0", "4", "-", "2", "9", "Z">>)

\* the batch of the run is the two postings of the example, in this order
ExampleBatch ==
  [k \in DOMAIN all_jobs |-> fetched[all_jobs[k]]] = <<ExampleFirst, ExampleSecond>>

\* C15: a batch of "Software Engineer"/"Acme"/"BSc CSE"/"2 years" followed by
\* "software engineer"/"acme" without education and experience, on an empty
\* corpus, leaves exactly one posting, the first, with industry
\* "IT/Telecommunication", degree tag "BSc / BS" and the entry-level bucket.
C15_ExampleEndToEnd ==
  /\ (pc = "write" /\ sheet = <<Header>> /\ ExampleBatch) =>
       /\ Len(new_rows) = 1
       /\ new_src = <<all_jobs[1]>>
       /\ new_rows[1].job_title = <<"S", "o", "f", "t", "w", "a", "r", "e", " ", "E", "n", "g", "i", "n", "e", "e", "r">>
       /\ new_rows[1].company = <<"A", "c", "m", "e">>
       /\ new_rows[1].industry = <<"I", "T", "/", "T", "e", "l", "e", "c", "o", "m", "m", "u", "n", "i", "c", "a", "t", "i", "o", "n">>
       /\ DegreeOf(new_rows[1].skills) = "BSc / BS"
       /\ bucket_experience(extract_exp_years(new_rows[1].skills)) = EntryLevel
  /\ (pc = "idle" /\ run = 1 /\ prev_jobs = <<ExampleFirst, ExampleSecond>>
        /\ sheet[Len(sheet)][1] = <<"S", "o", "f", "t", "w", "a", "r", "e", " ", "E", "n", "g", "i", "n", "e", "e", "r">>) =>
       /\ Len(sheet) = 2
       /\ sheet[2][6] = <<"I", "T", "/", "T", "e", "l", "e", "c", "o", "m", "m", "u", "n", "i", "c", "a", "t", "i", "o", "n">>
       /\ DegreeOf(sheet[2][5]) = "BSc / BS"
       /\ bucket_experience(extract_exp_years(sheet[2][5])) = EntryLevel

\* the run on the empty corpus has written the one posting of the example
C15_Witness ==
  /\ pc = "idle"
  /\ run = 1
  /\ prev_jobs = <<ExampleFirst, ExampleSecond>>
  /\ Len(sheet) = 2
  /\ sheet[2][1] = <<"S", "o", "f", "t", "w", "a", "r", "e", " ", "E", "n", "g", "i", "n", "e", "e", "r">>
  /\ sheet[2][5] = <<"E", "x", "p", "e", "r", "i", "e", "n", "c", "e", ":", " ", "2", " ", "y", "e", "a", "r", "s", ",", " ", "E", "d", "u", "c", "a", "t", "i", "o", "n", ":", " ", "B", "S", "c", " ", "C", "S", "E">>

\* the records of the pages 1 .. stop-1 of a listing
PagesBefore(listing, stop) ==
  SubSeq(listing, 1, Min((stop - 1) * Rpp, Len(listing)))

\* what fetch_jobs returns for category c when no request fails
Available(c) == PagesBefore(upstream[c], MaxPages + 1)

\* C16: a category's fetch adds the records of the pages before the first
\* page that is empty or fails, and nothing else; whatever page fails the
\* step can be taken and leads to the next category, after the last one to
\* the processing step.
C16_FetchStopsQuietly ==
  /\ [](pc = "fetch" => ENABLED FetchCategory)
  /\ [][pc = "fetch" =>
          /\ cat' = cat + 1
          /\ pc' = IF cat = Len(RunCategories) THEN "process" ELSE "fetch"
          /\ \E stop \in 1 .. (MaxPages + 1) :
               /\ \A p \in 1 .. (stop - 1) : PageOf(upstream[cat], p) # <<>>
               /\ fetched' = fetched \o PagesBefore(upstream[cat], stop)]_vars

\* the second page of the first category failed: its first page is kept, the
\* second category was fetched in full and the run is at the processing step
C16_Witness ==
  /\ pc = "process"
  /\ Len(Available(1)) = 2
  /\ Len(Available(2)) = 1
  /\ fetched = <<Available(1)[1]>> \o Available(2)

\* the batch of the run without the job objects whose title parse_job rejects
AcceptedBatch == SelectSeq(all_jobs, LAMBDA i : ~ParsedIsNone[fetched[i]])

\* existing_keys as the pass found it: a key it added was not in it
KeysBeforePass ==
  existing_keys \ { ParsedKey[fetched[new_src[k]]] : k \in DOMAIN new_src }

\* whether a title is empty or "none" in some letter case, per raw posting
TitleUnusable ==
  [job \in Catalogue |->
     TitleTable[job] = <<>> \/ Lower(TitleTable[job]) = <<"n", "o", "n", "e">>]

\* C17: a persisted posting has a title that is not empty after trimming
\* and is not "none" in any letter case, and a location that is not empty
\* and not "none", in the rows the sheet starts with and in every row a run
\* writes; a record with an empty or "none" title is left out, and the
\* postings kept are those kept had it not been in the batch.
C17_TitleAndLocationPresent ==
  /\ (pc = "idle" /\ run = 0) =>
       \A k \in 2 .. Len(sheet) :
         /\ Lower(Strip(sheet[k][1])) \notin { <<>>, <<"n", "o", "n", "e">> }
         /\ Lower(Strip(sheet[k][7])) \notin { <<>>, <<"n", "o", "n", "e">> }
  /\ pc = "write" =>
       /\ \A i \in DOMAIN fetched : TitleUnusable[fetched[i]] => ~Kept(i)
       /\ \A k \in DOMAIN new_rows :
            /\ Lower(Strip(RowOf(new_rows[k])[1])) \notin { <<>>, <<"n", "o", "n", "e">> }
            /\ Lower(Strip(RowOf(new_rows[k])[7])) \notin { <<>>, <<"n", "o", "n", "e">> }
       /\ new_rows = ProcessJobs(fetched, AcceptedBatch, 1, RunDates[run + 1],
                                 KeysBeforePass, <<>>, <<>>).new_rows

\* a record with the title "None" came before a record without a usable
\* location, which is kept with the fallback city
C17_Witness ==
  /\ pc = "write"
  /\ \E a, b \in DOMAIN all_jobs :
       /\ a < b
       /\ Lower(GetStr(fetched[all_jobs[a]].jobTitle)) = <<"n", "o", "n", "e">>
       /\ Kept(all_jobs[b])
       /\ Lower(GetStr(fetched[all_jobs[b]].location)) \in { <<>>, <<"n", "o", "n", "e">> }
       /\ \E k \in DOMAIN new_src :
            new_src[k] = all_jobs[b] /\ new_rows[k].location = <<"D", "h", "a", "k", "a">>

(***************************************************************************)
(* get_industry_education_matrix.  The matrix is its index, its columns    *)
(* and the function from (industry, degree) to the count.                  *)
(***************************************************************************)
\* head(8) and head(6), lines 613-614
TopIndustries == 8
TopDegrees    == 6

MatrixRow(k, text) == [industry |-> INDUSTRY_KEYWORDS[k].industry, skills |-> text]

\* a corpus of eight industries and six degree tags, to which the rows of
\* the model are added
BaseCorpus ==
  << MatrixRow(1, <<"P", "h", "D">>), MatrixRow(2, <<"M", "B", "A">>), MatrixRow(3, <<"M", ".", "S", "c">>),
     MatrixRow(4, <<"B", "S", "c">>), MatrixRow(5, <<"B", "B", "A">>), MatrixRow(6, <<"D", "i", "p", "l", "o", "m", "a">>),
     MatrixRow(7, <<"P", "h", "D">>), MatrixRow(8, <<"M", "B", "A">>) >>

ExtraRows == { MatrixRow(k, text) : k \in {1, 9}, text \in { <<"H", "S", "C">>, <<"P", "h", "D">>, <<"n", "/", "a">> } }

\* value_counts(): the number of rows per value
CountsOf(values) ==
  [ v \in { values[k] : k \in DOMAIN values } |->
      Cardinality({ k \in DOMAIN values : values[k] = v }) ]

\* mutant: any K of the values
TopSetsAnyOrder(counts, K) ==
  { T \in SUBSET DOMAIN counts : Cardinality(T) = Min(K, Cardinality(DOMAIN counts)) }

\* value_counts().head(K).index: the K most frequent values; among values
\* of equal count the order of value_counts() decides, which is any
TopSets(counts, K) ==
  { T \in SUBSET DOMAIN counts :
      /\ Cardinality(T) = Min(K, Cardinality(DOMAIN counts))
      /\ \A a \in T : \A b \in DOMAIN counts \ T : counts[a] >= counts[b] }

EmptyMatrix == [index |-> {}, columns |-> {}, cells |-> << >>]

\* lines 605-625: the matrices the call can return
get_industry_education_matrix(has_cols, df) ==
  IF ~has_cols THEN {EmptyMatrix}
  ELSE
    LET degree == extract_degrees([k \in DOMAIN df |-> df[k].skills])
        rows   == { k \in DOMAIN df : degree[k] # NotSpecified }
        tmp    == SelectSeq([k \in DOMAIN df |->
                               [industry |-> df[k].industry, degree |-> degree[k]]],
                            LAMBDA r : r.degree # NotSpecified)
    IN  IF rows = {} THEN {EmptyMatrix}
        ELSE
          { [index   |-> top_industries,
             columns |-> top_degrees,
             cells   |-> [ c \in top_industries \X top_degrees |->
                             Cardinality({ k \in DOMAIN tmp :
                                             /\ tmp[k].industry = c[1]
                                             /\ tmp[k].degree = c[2] }) ]] :
              top_industries \in TopSets(CountsOf([k \in DOMAIN tmp |-> tmp[k].industry]),
                                         TopIndustries),
              top_degrees \in TopSets(CountsOf([k \in DOMAIN tmp |-> tmp[k].degree]),
                                      TopDegrees) }

InitMatrix ==
  /\ ScraperUnused
  /\ pc = "call"
  /\ \E has_cols \in BOOLEAN, extra \in SeqsUpTo(ExtraRows, MaxRows),
        base \in {<<>>, BaseCorpus} :
       inp = [has_cols |-> has_cols, df |-> base \o extra]
  /\ out = <<>>

GetIndustryEducationMatrix ==
  /\ pc = "call"
  /\ out' \in get_industry_education_matrix(inp.has_cols, inp.df)
  /\ pc' = "return"
  /\ UNCHANGED inp
  /\ UNCHANGED scraperVars

NextMatrix == GetIndustryEducationMatrix

SpecMatrix == InitMatrix /\ [][NextMatrix]_vars

\* the rows of the corpus with a degree tag
SpecifiedRows ==
  IF inp.has_cols
    THEN { k \in DOMAIN inp.df : DegreeTable[inp.df[k].skills] # NotSpecified }
    ELSE {}

\* how many rows with a degree tag have the industry, and the degree
IndustryFrequency(i) == Cardinality({ k \in SpecifiedRows : inp.df[k].industry = i })
DegreeFrequency(g) ==
  Cardinality({ k \in SpecifiedRows : DegreeTable[inp.df[k].skills] = g })

IndustriesPresent == { inp.df[k].industry : k \in SpecifiedRows }
DegreesPresent    == { DegreeTable[inp.df[k].skills] : k \in SpecifiedRows }

\* C18: the matrix is indexed by the 8 most frequent industries and the 6
\* most frequent degree tags among the rows with a degree tag; a cell is the
\* number of rows with its industry and degree; a row whose industry or
\* degree is outside them is in no cell, and there is no cell for "other".
C18_MatrixOverTopK ==
  pc = "return" =>
    /\ out.index \subseteq IndustriesPresent
    /\ Cardinality(out.index) = Min(8, Cardinality(IndustriesPresent))
    /\ \A a \in out.index : \A b \in IndustriesPresent \ out.index :
         IndustryFrequency(a) >= IndustryFrequency(b)
    /\ out.columns \subseteq DegreesPresent
    /\ Cardinality(out.columns) = Min(6, Cardinality(DegreesPresent))
    /\ \A a \in out.columns : \A b \in DegreesPresent \ out.columns :
         DegreeFrequency(a) >= DegreeFrequency(b)
    /\ DOMAIN out.cells = out.index \X out.columns
    /\ \A c \in DOMAIN out.cells :
         out.cells[c] = Cardinality({ k \in SpecifiedRows :
                                        /\ inp.df[k].industry = c[1]
                                        /\ DegreeTable[inp.df[k].skills] = c[2] })
    /\ SumCounts(out.cells, DOMAIN out.cells)
         = Cardinality({ k \in SpecifiedRows :
                           /\ inp.df[k].industry \in out.index
                           /\ DegreeTable[inp.df[k].skills] \in out.columns })

\* nine industries and seven degree tags are present: one of each is left
\* out, and a row with a degree tag is in no cell
C18_Witness ==
  /\ pc = "return"
  /\ Cardinality(IndustriesPresent) = 9
  /\ Cardinality(DegreesPresent) = 7
  /\ Cardinality(out.index) = 8
  /\ Cardinality(out.columns) = 6
  /\ SumCounts(out.cells, DOMAIN out.cells) < Cardinality(SpecifiedRows)

(***************************************************************************)
(* KPI delta helpers: get_jobs_today, get_jobs_yesterday, get_delta_jobs   *)
(* and get_new_companies_today.  pd.Timestamp.now() is the wall clock of   *)
(* the process: the instant of the call shifted by the offset of the       *)
(* machine's time zone from UTC.                                           *)
(***************************************************************************)
\* Timestamp.normalize(): midnight of the day
Normalize(t) == (t \div Day) * Day

\* the UTC instants of the call, the offsets of the time zone, and the
\* minutes between the two clock readings of get_delta_jobs
DeltaClock == { 30 * Day + 12 * Hour, 30 * Day + 23 * Hour + 59 }
ZoneOffsets == { 0, 6 * Hour }
Ticks == { 0, 1 }

\* date_scraped values: the days before, of, and after the day of the call
DeltaStamps ==
  { Stamp(28 * Day), Stamp(29 * Day), Stamp(30 * Day), Stamp(31 * Day), NaT }

DeltaRows == [company : Companies, date_scraped : DeltaStamps]

\* lines 224-230; now is the reading of the wall clock
get_jobs_today(has_col, df, now) ==
  IF ~has_col THEN 0
  ELSE LET today == Normalize(now)
       IN  Cardinality({ k \in DOMAIN df :
                           df[k].date_scraped.ok /\ df[k].date_scraped.t >= today })

\* lines 233-240
get_jobs_yesterday(has_col, df, now) ==
  IF ~has_col THEN 0
  ELSE LET today     == Normalize(now)
           yesterday == today - Day
       IN  Cardinality({ k \in DOMAIN df :
                           /\ df[k].date_scraped.ok
                           /\ df[k].date_scraped.t >= yesterday
                           /\ df[k].date_scraped.t < today })

\* lines 243-245: each of the two calls reads the clock
get_delta_jobs(has_col, df, now, later) ==
  get_jobs_today(has_col, df, now) - get_jobs_yesterday(has_col, df, later)

\* lines 248-256
get_new_companies_today(has_col, df, now) ==
  IF ~has_col THEN 0
  ELSE LET today           == Normalize(now)
           today_companies == { df[k].company : k \in
                                  { j \in DOMAIN df : /\ df[j].date_scraped.ok
                                                      /\ df[j].date_scraped.t >= today } }
           prev_companies  == { df[k].company : k \in
                                  { j \in DOMAIN df : /\ df[j].date_scraped.ok
                                                      /\ df[j].date_scraped.t < today } }
       IN  Cardinality(today_companies \ prev_companies)

InitDelta ==
  /\ ScraperUnused
  /\ pc = "call"
  /\ \E has_col \in BOOLEAN, df \in SeqsUpTo(DeltaRows, MaxRows),
        now \in DeltaClock, zone \in ZoneOffsets, tick \in Ticks :
       inp = [has_col |-> has_col, df |-> df, now |-> now, zone |-> zone,
              tick |-> tick]
  /\ out = <<>>

GetDeltaJobs ==
  /\ pc = "call"
  /\ out' = [of    |-> "delta",
             value |-> get_delta_jobs(inp.has_col, inp.df, inp.now + inp.zone,
                                      inp.now + inp.tick + inp.zone)]
  /\ pc' = "return"
  /\ UNCHANGED inp
  /\ UNCHANGED scraperVars

GetNewCompaniesToday ==
  /\ pc = "call"
  /\ out' = [of    |-> "new_companies",
             value |-> get_new_companies_today(inp.has_col, inp.df,
                                               inp.now + inp.zone)]
  /\ pc' = "return"
  /\ UNCHANGED inp
  /\ UNCHANGED scraperVars

NextDelta == GetDeltaJobs \/ GetNewCompaniesToday

SpecDelta == InitDelta /\ [][NextDelta]_vars

\* the rows dated in [from, to), for a corpus with a date column
DatedIn(from, to) ==
  IF inp.has_col
    THEN { k \in DOMAIN inp.df :
             /\ inp.df[k].date_scraped.ok
             /\ from <= inp.df[k].date_scraped.t
             /\ inp.df[k].date_scraped.t < to }
    ELSE {}

\* midnight UTC of the day of the call
UtcToday == (inp.now \div (24 * 60)) * (24 * 60)

\* C19: the delta is the number of postings dated on the current UTC day
\* minus the number dated on the UTC day before; the new companies are the
\* companies with a posting dated today that have none dated before today.
C19_DailyDelta ==
  pc = "return" =>
    /\ out.of = "delta" =>
         out.value = Cardinality(DatedIn(UtcToday, UtcToday + 24 * 60))
                       - Cardinality(DatedIn(UtcToday - 24 * 60, UtcToday))
    /\ out.of = "new_companies" =>
         out.value = Cardinality(
                       { inp.df[k].company : k \in DatedIn(UtcToday, UtcToday + 24 * 60) }
                         \ { inp.df[k].company : k \in DatedIn(0, UtcToday) })

\* a posting dated on the day after the call has been counted for today, on
\* a machine whose clock is UTC and whose readings fall on one day
C19_Witness ==
  /\ pc = "return"
  /\ out.of = "delta"
  /\ inp.has_col
  /\ inp.zone = 0
  /\ inp.tick = 0
  /\ inp.df = << [company |-> "Acme", date_scraped |-> Stamp(31 * Day)] >>
  /\ out.value = 1

(***************************************************************************)
(* scraper.py: parse_job on its own, and the row main() writes for it      *)
(***************************************************************************)
\* the values of a raw field: absent or null, the string "None", a text
RawValues(text) == { Null, <<"N", "o", "n", "e">>, text }

ParseJobs ==
  { RawJob(0, 0, jobTitle, companyName, location, experience, eduRec, publishDate) :
      jobTitle \in RawValues(<<" ", "Q", "A", " ", "L", "e", "a", "d", " ">>), companyName \in RawValues(<<"A", "c", "m", "e">>),
      location \in RawValues(<<"S", "y", "l", "h", "e", "t">>), experience \in RawValues(<<"2", " ", "y", "e", "a", "r", "s">>),
      eduRec \in RawValues(<<"B", "S", "c">>), publishDate \in RawValues(<<"2", "0", "2", "4", "-", "0", "4", "-", "3", "0">>) }

InitParse ==
  /\ ScraperUnused
  /\ pc = "call"
  /\ inp \in ParseJobs
  /\ out = <<>>

\* parse_job(job) and, for a posting, lines 281-293
ParseJob ==
  /\ pc = "call"
  /\ out' = IF TitleRejected(inp)
              THEN [none |-> TRUE, row |-> <<>>]
              ELSE [none |-> FALSE, row |-> RowOf(parse_job(inp, RunDates[1]))]
  /\ pc' = "return"
  /\ UNCHANGED inp
  /\ UNCHANGED scraperVars

NextParse == ParseJob

SpecParse == InitParse /\ [][NextParse]_vars

\* a raw value with null and "None" replaced by the empty string
AsEmpty(v) == IF v = Null \/ v = <<"N", "o", "n", "e">> THEN <<>> ELSE v

\* the raw posting with every null or "None" field emptied
Emptied(job) ==
  RawJob(job.Jobid, job.jobId, AsEmpty(job.jobTitle), AsEmpty(job.companyName),
         AsEmpty(job.location), AsEmpty(job.experience), AsEmpty(job.eduRec),
         AsEmpty(job.publishDate))

\* C20: parse_job treats a field that is absent, null or "None" as empty:
\* the posting is the one it makes of the record with those fields empty,
\* and no column of the row written holds the string "None".
C20_NoneIsEmpty ==
  pc = "return" =>
    /\ out.none = TitleRejected(Emptied(inp))
    /\ ~out.none =>
         /\ out.row = RowOf(parse_job(Emptied(inp), RunDates[1]))
         /\ \A k \in DOMAIN out.row : out.row[k] # <<"N", "o", "n", "e">>

\* a posting whose company came as the string "None" is written with it
C20_Witness ==
  /\ pc = "return"
  /\ ~out.none
  /\ inp.companyName = <<"N", "o", "n", "e">>
  /\ out.row[2] = <<"N", "o", "n", "e">>

(***************************************************************************)
(* scraper.py: the category a posting was fetched under                    *)
(***************************************************************************)
\* CATEGORIES, lines 39-50: the label of each category id
CategoryName ==
  [ id \in { CATEGORIES[k] : k \in DOMAIN CATEGORIES } |->
      CASE id = 8  -> <<"I", "T", "/", "T", "e", "l", "e", "c", "o", "m", "m", "u", "n", "i", "c", "a", "t", "i", "o", "n">>
        [] id = 2  -> <<"B", "a", "n", "k", "/", "F", "i", "n", "a", "n", "c", "i", "a", "l">>
        [] id = 10 -> <<"E", "n", "g", "i", "n", "e", "e", "r", "i", "n", "g">>
        [] id = 3  -> <<"M", "a", "r", "k", "e", "t", "i", "n", "g", "/", "S", "a", "l", "e", "s">>
        [] id = 12 -> <<"N", "G", "O", "/", "D", "e", "v", "e", "l", "o", "p", "m", "e", "n", "t">>
        [] id = 1  -> <<"A", "c", "c", "o", "u", "n", "t", "i", "n", "g", "/", "F", "i", "n", "a", "n", "c", "e">>
        [] id = 6  -> <<"E", "d", "u", "c", "a", "t", "i", "o", "n", "/", "T", "r", "a", "i", "n", "i", "n", "g">>
        [] id = 9  -> <<"H", "e", "a", "l", "t", "h", "c", "a", "r", "e", "/", "M", "e", "d", "i", "c", "a", "l">>
        [] id = 4  -> <<"H", "R", "/", "A", "d", "m", "i", "n">>
        [] id = 7  -> <<"G", "a", "r", "m", "e", "n", "t", "s", "/", "T", "e", "x", "t", "i", "l", "e">> ]

\* line 186 tabulated: the postings in whose text no keyword occurs
NoKeyword ==
  [ job \in Catalogue |->
      detect_industry(GetStr(job.jobTitle), GetStr(job.eduRec),
                      GetStr(job.companyName)) = GeneralOther ]

\* the labels of the categories whose listing holds the posting
FetchedUnder(job) ==
  { CategoryName[RunCategories[c]] :
      c \in { m \in DOMAIN RunCategories :
                \E i \in DOMAIN upstream[m] : upstream[m][i] = job } }

\* C21: a posting in whose text no keyword occurs is written with the label
\* of a category it was fetched under as its industry.
C21_CategoryIsFallbackIndustry ==
  pc = "write" =>
    \A k \in DOMAIN new_rows :
      NoKeyword[fetched[new_src[k]]] =>
        new_rows[k].industry \in FetchedUnder(fetched[new_src[k]])

\* a posting without a keyword, fetched under one category only, is about to
\* be written as "General/Other"
C21_Witness ==
  /\ pc = "write"
  /\ \E k \in DOMAIN new_rows :
       /\ NoKeyword[fetched[new_src[k]]]
       /\ FetchedUnder(fetched[new_src[k]]) = { <<"I", "T", "/", "T", "e", "l", "e", "c", "o", "m", "m", "u", "n", "i", "c", "a", "t", "i", "o", "n">> }
       /\ new_rows[k].industry = GeneralOther

(***************************************************************************)
(* utils.py, ai_summary.py: skill tokens                                   *)
(***************************************************************************)
\* STOPWORDS, ai_summary.py lines 240-251
STOPWORDS ==
  { <<"t", "h", "e">>, <<"a", "n", "d">>, <<"o", "r">>, <<"i", "n">>, <<"o", "f">>, <<"t", "o">>, <<"a">>, <<"a", "n">>, <<"i", "s">>, <<"a", "r", "e">>, <<"f", "o", "r">>, <<"w", "i", "t", "h">>,
    <<"o", "n">>, <<"a", "t">>, <<"b", "y">>, <<"a", "s">>, <<"b", "e">>, <<"w", "i", "l", "l">>, <<"w", "e">>, <<"y", "o", "u">>, <<"n", "o", "t">>, <<"t", "h", "i", "s">>, <<"t", "h", "a", "t">>,
    <<"o", "u", "r">>, <<"f", "r", "o", "m">>, <<"h", "a", "v", "e">>, <<"h", "a", "s">>, <<"e", "x", "p", "e", "r", "i", "e", "n", "c", "e">>, <<"r", "e", "q", "u", "i", "r", "e", "d">>, <<"m", "i", "n", "i", "m", "u", "m">>, <<"m", "a", "x", "i", "m", "u", "m">>,
    <<"y", "e", "a", "r", "s">>, <<"y", "e", "a", "r">>, <<"j", "o", "b">>, <<"w", "o", "r", "k">>, <<"c", "a", "n", "d", "i", "d", "a", "t", "e">>, <<"a", "p", "p", "l", "i", "c", "a", "n", "t">>, <<"p", "o", "s", "i", "t", "i", "o", "n">>, <<"r", "o", "l", "e">>,
    <<"c", "o", "m", "p", "a", "n", "y">>, <<"t", "e", "a", "m">>, <<"g", "o", "o", "d">>, <<"s", "t", "r", "o", "n", "g">>, <<"e", "x", "c", "e", "l", "l", "e", "n", "t">>, <<"k", "n", "o", "w", "l", "e", "d", "g", "e">>, <<"a", "b", "i", "l", "i", "t", "y">>,
    <<"s", "k", "i", "l", "l">>, <<"s", "k", "i", "l", "l", "s">>, <<"m", "u", "s", "t">>, <<"s", "h", "o", "u", "l", "d">>, <<"p", "r", "e", "f", "e", "r">>, <<"p", "r", "e", "f", "e", "r", "r", "e", "d">>, <<"g", "r", "a", "d", "u", "a", "t", "e">>,
    <<"u", "n", "i", "v", "e", "r", "s", "i", "t", "y">>, <<"d", "e", "g", "r", "e", "e">>, <<"e", "d", "u", "c", "a", "t", "i", "o", "n">>, <<"m", "a", "l", "e">>, <<"f", "e", "m", "a", "l", "e">>, <<"b", "o", "t", "h">>, <<"a", "n", "y">>, <<"a", "l", "l">>,
    <<"o", "t", "h", "e", "r">>, <<"p", "l", "e", "a", "s", "e">>, <<"a", "p", "p", "l", "y">>, <<"s", "a", "l", "a", "r", "y">>, <<"n", "e", "g", "o", "t", "i", "a", "b", "l", "e">>, <<"a", "t", "t", "r", "a", "c", "t", "i", "v", "e">>, <<"p", "a", "c", "k", "a", "g", "e">>,
    <<"b", "a", "n", "g", "l", "a", "d", "e", "s", "h">>, <<"d", "h", "a", "k", "a">>, <<"c", "h", "i", "t", "t", "a", "g", "o", "n", "g">>, <<"s", "y", "l", "h", "e", "t">> }

\* the character class of ai_summary.py line 258
MarketSeparators == {",", "/", "|", ";", "\n"}

\* ai_summary.py line 261: 2 <= len(token) <= 40
MinTokenLen == 2
MaxTokenLen == 40

\* re.split(r"[...]+", text): the text is cut at every run of separators
RECURSIVE ReSplit(_, _, _, _)
ReSplit(text, seps, k, cur) ==
  IF k > Len(text) THEN <<cur>>
  ELSE IF text[k] \in seps
         THEN IF k > 1 /\ text[k - 1] \in seps
                THEN ReSplit(text, seps, k + 1, cur)
                ELSE <<cur>> \o ReSplit(text, seps, k + 1, <<>>)
  ELSE ReSplit(text, seps, k + 1, Append(cur, text[k]))

\* str.split(sep): the text is cut at every separator
RECURSIVE StrSplit(_, _, _, _)
StrSplit(text, sep, k, cur) ==
  IF k > Len(text) THEN <<cur>>
  ELSE IF text[k] = sep THEN <<cur>> \o StrSplit(text, sep, k + 1, <<>>)
  ELSE StrSplit(text, sep, k + 1, Append(cur, text[k]))

\* mutant: the entry is cut at every separator of the skill-gap rule
CleanEntryAllSeparators(entry) ==
  LET entry_str == Strip(entry)
  IN  IF Lower(entry_str) \in {<<>>, <<"n", "a", "n">>} THEN <<>>
      ELSE LET parts == SelectSeq(ReSplit(entry_str, MarketSeparators, 1, <<>>),
                                  LAMBDA s : Strip(s) # <<>>)
           IN  [k \in DOMAIN parts |-> Lower(Strip(parts[k]))]

\* utils.py lines 127-131: the skills of one entry of the column
CleanEntry(entry) ==
  LET entry_str == Strip(entry)
  IN  IF Lower(entry_str) \in {<<>>, <<"n", "a", "n">>} THEN <<>>
      ELSE LET parts == SelectSeq(StrSplit(entry_str, ",", 1, <<>>),
                                  LAMBDA s : Strip(s) # <<>>)
           IN  [k \in DOMAIN parts |-> Lower(Strip(parts[k]))]

\* mutant: stop words are kept
MarketTokensKeepStopwords(text) ==
  LET tokens == ReSplit(Lower(text), MarketSeparators, 1, <<>>)
      trimmed == [k \in DOMAIN tokens |-> Strip(tokens[k])]
  IN  SelectSeq(trimmed, LAMBDA token :
                  MinTokenLen <= Len(token) /\ Len(token) <= MaxTokenLen)

\* ai_summary.py lines 258-262: the tokens of one text of the column
MarketTokens(text) ==
  LET tokens == ReSplit(Lower(text), MarketSeparators, 1, <<>>)
      trimmed == [k \in DOMAIN tokens |-> Strip(tokens[k])]
  IN  SelectSeq(trimmed, LAMBDA token :
                  /\ MinTokenLen <= Len(token) /\ Len(token) <= MaxTokenLen
                  /\ token \notin STOPWORDS)

\* cells of the skills column: texts and NaN
SkillCells ==
  { <<"P", "y", "t", "h", "o", "n", ",", " ", "S", "Q", "L">>,
    <<"p", "y", "t", "h", "o", "n", "/", "D", "j", "a", "n", "g", "o">>,
    <<"S", "Q", "L", ";", " ", "E", "x", "c", "e", "l", " ", "|", " ", "e", "x", "p", "e", "r", "i", "e", "n", "c", "e">>,
    <<"R", ",", " ", "G", "o", ",", " ", "a">>,
    <<"n", "a", "n">>,
    <<"a", "b", "c", "d", "e", "f", "g", "h", "i", "j", "k", "l", "m", "n", "o", "p", "q", "r", "s", "t", "u", "v", "w", "x", "y", "z", "a", "b", "c", "d", "e", "f", "g", "h", "i", "j", "k", "l", "m", "n", "o">>,
    <<" ", "S", "Q", "L", "\n", "D", "h", "a", "k", "a", ",", ",", " ">>,
    Null }

CleanEntryTable   == [ t \in (SkillCells \cup SkillsTexts) \ {Null} |-> CleanEntry(t) ]
MarketTokensTable == [ t \in SkillCells \ {Null} |-> MarketTokens(t) ]

\* utils.py lines 123-132: series.dropna(), then every entry's skills
RECURSIVE clean_skills(_)
clean_skills(series) ==
  IF series = <<>> THEN <<>>
  ELSE (IF Head(series) = Null THEN <<>> ELSE CleanEntryTable[Head(series)])
       \o clean_skills(Tail(series))

\* ai_summary.py lines 256-262: all_tokens
RECURSIVE all_tokens_of(_)
all_tokens_of(column) ==
  IF column = <<>> THEN <<>>
  ELSE (IF Head(column) = Null THEN <<>> ELSE MarketTokensTable[Head(column)])
       \o all_tokens_of(Tail(column))

\* Counter(tokens).items(): each distinct token with its count, in the order
\* the tokens were first seen
RECURSIVE CounterItems(_, _)
CounterItems(tokens, acc) ==
  IF tokens = <<>> THEN acc
  ELSE IF \E k \in DOMAIN acc : acc[k][1] = Head(tokens)
         THEN LET k == CHOOSE m \in DOMAIN acc : acc[m][1] = Head(tokens)
              IN  CounterItems(Tail(tokens), [acc EXCEPT ![k][2] = @ + 1])
         ELSE CounterItems(Tail(tokens), Append(acc, <<Head(tokens), 1>>))

\* mutant: an item goes in front of the items with the same count
InsertByCountBeforeTies(sorted, x) ==
  LET p == Cardinality({ k \in DOMAIN sorted : sorted[k][2] > x[2] })
  IN  SubSeq(sorted, 1, p) \o <<x>> \o SubSeq(sorted, p + 1, Len(sorted))

\* sorted(items, key=itemgetter(1), reverse=True) is stable: an item goes
\* behind the items already placed whose count is not smaller
InsertByCount(sorted, x) ==
  LET p == Cardinality({ k \in DOMAIN sorted : sorted[k][2] >= x[2] })
  IN  SubSeq(sorted, 1, p) \o <<x>> \o SubSeq(sorted, p + 1, Len(sorted))

RECURSIVE SortedByCount(_, _)
SortedByCount(items, acc) ==
  IF items = <<>> THEN acc
  ELSE SortedByCount(Tail(items), InsertByCount(acc, Head(items)))

\* Counter(tokens).most_common(n)
most_common(tokens, n) ==
  LET sorted == SortedByCount(CounterItems(tokens, <<>>), <<>>)
  IN  SubSeq(sorted, 1, Min(n, Len(sorted)))

\* the n of top_skills_list (utils.py line 207, main.py line 1663), the top_n
\* of skill_frequency (line 135) and of _extract_market_skills (line 273)
TopSkillsN       == 10
SkillFrequencyN  == 15
MarketSkillsN    == 40

KeyError == [raised |-> "KeyError"]

\* utils.py lines 207-210
top_skills_list(has_skills, column, n) ==
  IF ~has_skills THEN KeyError
  ELSE LET skills == clean_skills(column)
       IN  [raised |-> "", tokens |-> skills, result |-> most_common(skills, n)]

\* ai_summary.py lines 236-264
extract_market_skills(has_skills, column, top_n) ==
  IF ~has_skills THEN [raised |-> "", tokens |-> <<>>, result |-> <<>>]
  ELSE LET all_tokens == all_tokens_of(column)
           ranked     == most_common(all_tokens, top_n)
       IN  [raised |-> "", tokens |-> all_tokens,
            result |-> [k \in DOMAIN ranked |-> ranked[k][1]]]

\* utils.py lines 135-140: the tables skill_frequency may return
skill_frequency(skills, top_n) ==
  LET most == most_common(skills, top_n)
  IN  SortValuesDescending({ most[k] : k \in DOMAIN most })

InitSkills ==
  /\ ScraperUnused
  /\ pc = "call"
  /\ inp \in [ has_skills : BOOLEAN, skills : SeqsUpTo(SkillCells, MaxRows) ]
  /\ out = <<>>

TopSkillsList ==
  /\ pc = "call"
  /\ out' = [op |-> "top_skills_list"] @@
            top_skills_list(inp.has_skills, inp.skills, TopSkillsN)
  /\ pc' = "return"
  /\ UNCHANGED inp
  /\ UNCHANGED scraperVars

ExtractMarketSkills ==
  /\ pc = "call"
  /\ out' = [op |-> "_extract_market_skills"] @@
            extract_market_skills(inp.has_skills, inp.skills, MarketSkillsN)
  /\ pc' = "return"
  /\ UNCHANGED inp
  /\ UNCHANGED scraperVars

\* skill_frequency(clean_skills(df["skills"]))
SkillFrequency ==
  /\ pc = "call"
  /\ inp.has_skills
  /\ LET skills == clean_skills(inp.skills)
     IN  \E table \in skill_frequency(skills, SkillFrequencyN) :
           out' = [op |-> "skill_frequency", raised |-> "",
                   tokens |-> skills, result |-> table]
  /\ pc' = "return"
  /\ UNCHANGED inp
  /\ UNCHANGED scraperVars

NextSkills == TopSkillsList \/ ExtractMarketSkills \/ SkillFrequency

SpecSkills == InitSkills /\ [][NextSkills]_vars

\* the pieces of a text between separators, in the order they stand in it
RECURSIVE PiecesFrom(_, _, _)
PiecesFrom(text, seps, i) ==
  IF i > Len(text) THEN <<>>
  ELSE IF text[i] \in seps THEN PiecesFrom(text, seps, i + 1)
  ELSE LET j == CHOOSE m \in i .. Len(text) :
                  /\ \A q \in i .. m : text[q] \notin seps
                  /\ m = Len(text) \/ text[m + 1] \in seps
       IN  <<SubSeq(text, i, j)>> \o PiecesFrom(text, seps, j + 1)

\* a rule for the tokens of a text: cut at the separators, lowercase, trim,
\* keep the tokens with a length in lens that are not in stop
RuleTokens(text, seps, lens, stop) ==
  LET pieces == PiecesFrom(text, seps, 1)
      tokens == [k \in DOMAIN pieces |-> Strip(Lower(pieces[k]))]
  IN  SelectSeq(tokens, LAMBDA t : Len(t) \in lens /\ t \notin stop)

\* the rule applied to the texts of a column, without the missing cells and
\* the cells that read as one of skip
RECURSIVE ColumnTokens(_, _, _, _, _)
ColumnTokens(column, seps, lens, stop, skip) ==
  IF column = <<>> THEN <<>>
  ELSE (IF Head(column) = Null \/ Lower(Strip(Head(column))) \in skip THEN <<>>
        ELSE RuleTokens(Head(column), seps, lens, stop))
       \o ColumnTokens(Tail(column), seps, lens, stop, skip)

\* C22 as stated: the tokens counted for the skill ranking and the tokens
\* counted for the skill-gap comparison are both the tokens of the one rule
\* (cut at , / | ; newline, lowercase, trim, length 2 to 40, no stop word).
C22_OneVocabularyRule ==
  (pc = "return" /\ out.raised = "" /\ inp.has_skills) =>
    out.tokens = ColumnTokens(inp.skills, MarketSeparators,
                              MinTokenLen .. MaxTokenLen, STOPWORDS, {})

\* C22 amended: the skill-gap comparison counts the tokens of that rule; the
\* skill ranking counts the tokens of another: cut at commas only, lowercase,
\* trim, every non-empty token, of the cells that do not read "nan".
C22_TwoVocabularyRules ==
  (pc = "return" /\ out.raised = "" /\ inp.has_skills) =>
    LET vocabulary == { out.tokens[k] : k \in DOMAIN out.tokens }
    IN  IF out.op = "_extract_market_skills"
          THEN /\ out.tokens = ColumnTokens(inp.skills, MarketSeparators,
                                            MinTokenLen .. MaxTokenLen, STOPWORDS, {})
               /\ { out.result[k] : k \in DOMAIN out.result } \subseteq vocabulary
               /\ Len(out.result) = Min(MarketSkillsN, Cardinality(vocabulary))
          ELSE /\ out.tokens = ColumnTokens(inp.skills, {","}, Nat \ {0}, {}, { <<"n", "a", "n">> })
               /\ { out.result[k][1] : k \in DOMAIN out.result } \subseteq vocabulary
               /\ Len(out.result) =
                    Min(IF out.op = "top_skills_list" THEN TopSkillsN ELSE SkillFrequencyN,
                        Cardinality(vocabulary))

\* the ranking was given "python/Django" and "SQL; Excel | experience" and
\* counts each text as one skill
C22_Witness ==
  /\ pc = "return"
  /\ inp.has_skills
  /\ inp.skills = << <<"p", "y", "t", "h", "o", "n", "/", "D", "j", "a", "n", "g", "o">>, <<"S", "Q", "L", ";", " ", "E", "x", "c", "e", "l", " ", "|", " ", "e", "x", "p", "e", "r", "i", "e", "n", "c", "e">> >>
  /\ out.op = "top_skills_list"
  /\ out.tokens = << <<"p", "y", "t", "h", "o", "n", "/", "d", "j", "a", "n", "g", "o">>, <<"s", "q", "l", ";", " ", "e", "x", "c", "e", "l", " ", "|", " ", "e", "x", "p", "e", "r", "i", "e", "n", "c", "e">> >>

(***************************************************************************)
(* utils.py: the order of the frequency tables                             *)
(***************************************************************************)
NextTables == TopSkillsList \/ SkillFrequency \/ GetDegreeCounts

SpecTables == InitCounts /\ [][NextTables]_vars

\* the rows of the table an operation returned: (label, count) pairs
TableRows ==
  IF "rows" \in DOMAIN out THEN out.rows
  ELSE IF "result" \in DOMAIN out THEN out.result
  ELSE <<>>

\* what the table counts, in the order of the corpus: the degree tag of
\* every row, or the skill tokens
CountedLabels ==
  IF "rows" \in DOMAIN out
    THEN [k \in DOMAIN inp.skills |-> DegreeTable[inp.skills[k]]]
  ELSE IF "tokens" \in DOMAIN out THEN out.tokens
  ELSE <<>>

FirstSeen(label) ==
  CHOOSE k \in DOMAIN CountedLabels :
    /\ CountedLabels[k] = label
    /\ \A m \in 1 .. (k - 1) : CountedLabels[m] # label

\* C23: the rows of a frequency table stand in descending order of count,
\* and of two labels with the same count the one seen first in the corpus
\* stands first.
C23_TiesInFirstSeenOrder ==
  pc = "return" =>
    \A i, j \in DOMAIN TableRows :
      i < j =>
        \/ TableRows[i][2] > TableRows[j][2]
        \/ /\ TableRows[i][2] = TableRows[j][2]
           /\ FirstSeen(TableRows[i][1]) < FirstSeen(TableRows[j][1])

\* what does hold: every table is in descending order of count, each label
\* has the count of its occurrences, and the table top_skills_list takes
\* from Counter.most_common has its ties in first-seen order
C23_DescendingCounts ==
  pc = "return" =>
    /\ \A i, j \in DOMAIN TableRows :
         i < j =>
           /\ TableRows[i][2] >= TableRows[j][2]
           /\ TableRows[i][1] # TableRows[j][1]
    /\ \A i \in DOMAIN TableRows :
         TableRows[i][2] =
           Cardinality({ k \in DOMAIN CountedLabels :
                           CountedLabels[k] = TableRows[i][1] })
    /\ ("op" \in DOMAIN out /\ out.op = "top_skills_list") =>
         C23_TiesInFirstSeenOrder

\* a degree table in which, of two tags counted once, the one seen second
\* stands first
C23_Witness ==
  /\ pc = "return"
  /\ "rows" \in DOMAIN out
  /\ Len(out.rows) = 2
  /\ out.rows[1][2] = out.rows[2][2]
  /\ FirstSeen(out.rows[1][1]) > FirstSeen(out.rows[2][1])

(***************************************************************************)
(* scraper.py: what a run does to the sheet                                *)
(***************************************************************************)
\* the fields of a posting in the order of the sheet's columns
ColumnNames ==
  << "job_title", "company", "salary_min", "salary_max",
     "skills", "industry", "location", "date_scraped" >>

\* C24: a step of a run leaves the rows the sheet had as they were and where
\* they were, and every row it adds has the eight columns job_title, company,
\* salary_min, salary_max, skills, industry, location, date_scraped of one
\* accepted posting, in that order, and the identity key in none of them.
C24_AppendOnly ==
  [][ /\ Len(sheet') >= Len(sheet)
      /\ SubSeq(sheet', 1, Len(sheet)) = sheet
      /\ \A k \in (Len(sheet) + 1) .. Len(sheet') :
           LET r == new_rows[k - Len(sheet)]
           IN  /\ Len(sheet'[k]) = 8
               /\ Len(sheet'[k]) = Len(Header)
               /\ \A c \in 1 .. 8 : sheet'[k][c] = r[ColumnNames[c]]
               /\ \A c \in 1 .. 8 : sheet'[k][c] # Key(r.job_title, r.company)
      /\ Len(sheet') - Len(sheet) \in {0, Len(new_rows)} ]_vars

\* a run has added a row behind the row the sheet held before it
C24_Witness ==
  /\ pc = "idle"
  /\ run = 1
  /\ Len(sheet) >= 3
  /\ sheet[1] = Header
  /\ sheet[2][1] = <<"S", "O", "F", "T", "W", "A", "R", "E", " ", "E", "N", "G", "I", "N", "E", "E", "R">>
  /\ sheet[3][8] = RunDates[1]

(***************************************************************************)
(* utils.py: the queries on the loaded corpus, with the DataFrame objects  *)
(* they create and write to                                                *)
(***************************************************************************)
\* the columns of the empty table load_data returns, lines 83-88, and the
\* columns of a table read from the sheet
EmptyColumns ==
  {"job_title", "company", "salary_min", "salary_max", "skills", "industry",
   "location"}
SheetColumns == EmptyColumns \cup {"date_scraped"}

\* pd.Timestamp.now() at the queries
QueryNow == 30 * Day + 12 * Hour

QueryRows ==
  { [job_title |-> "Developer", company |-> c,
     industry |-> IF c = "Acme" THEN "IT/Telecommunication" ELSE "Bank/Financial",
     location |-> "Dhaka", skills |-> s, date_scraped |-> t] :
      c \in Companies,
      s \in { <<"E", "x", "p", "e", "r", "i", "e", "n", "c", "e", ":", " ", "6", " ", "y", "e", "a", "r", "s", ",", " ", "E", "d", "u", "c", "a", "t", "i", "o", "n", ":", " ", "M", "B", "A">>, <<"M", "a", "n", "a", "g", "e", "m", "e", "n", "t">> },
      t \in { Stamp(30 * Day), Stamp(22 * Day) } }

\* a row of a table that has no date_scraped column
WithoutDate(row) == [c \in DOMAIN row \ {"date_scraped"} |-> row[c]]

\* the tables load_data can have returned
LoadedFrames ==
  { [columns |-> SheetColumns, rows |-> rows] :
      rows \in SeqsUpTo(QueryRows, MaxRows) }
  \cup
  { [columns |-> EmptyColumns, rows |-> [k \in DOMAIN rows |-> WithoutDate(rows[k])]] :
      rows \in SeqsUpTo(QueryRows, MaxRows) }

\* The DataFrame objects of a call: heap holds them, the caller's df first;
\* ref is the object a local name is bound to.
\* mutant: the name is bound to the object itself, not to a copy
CopyAliases(s) == s

\* df.copy(): a new object with the same content
Copy(s) == [heap |-> Append(s.heap, s.heap[s.ref]), ref |-> Len(s.heap) + 1]

\* df[mask]: a new object with the rows of the mask
RECURSIVE RowsAt(_, _, _)
RowsAt(rows, keep, k) ==
  IF k > Len(rows) THEN <<>>
  ELSE (IF k \in keep THEN <<rows[k]>> ELSE <<>>) \o RowsAt(rows, keep, k + 1)

Where(s, keep) ==
  [heap |-> Append(s.heap, [s.heap[s.ref] EXCEPT !.rows = RowsAt(@, keep, 1)]),
   ref  |-> Len(s.heap) + 1]

\* df[name] = values: the object itself gets the column
SetColumn(s, name, values) ==
  [s EXCEPT !.heap[s.ref] =
     [columns |-> @.columns \cup {name},
      rows    |-> [k \in DOMAIN @.rows |->
                     [c \in DOMAIN @.rows[k] \cup {name} |->
                        IF c = name THEN values[k] ELSE @.rows[k][c]]]]]

RowsOf(s) == s.heap[s.ref].rows

\* apply_filters, lines 185-199, on the objects
apply_filters_objects(s, industries, job_titles, locations) ==
  LET filtered == Copy(s)
      f1 == IF industries # {}
              THEN Where(filtered, { k \in DOMAIN RowsOf(filtered) :
                                       RowsOf(filtered)[k].industry \in industries })
              ELSE filtered
      f2 == IF job_titles # {}
              THEN Where(f1, { k \in DOMAIN RowsOf(f1) :
                                 RowsOf(f1)[k].job_title \in job_titles })
              ELSE f1
      f3 == IF locations # {}
              THEN Where(f2, { k \in DOMAIN RowsOf(f2) :
                                 RowsOf(f2)[k].location \in locations })
              ELSE f2
  IN  f3

\* get_industry_education_matrix, lines 605-612, on the objects: tmp after
\* the rows without a degree tag are gone
matrix_objects(s) ==
  IF ~({"skills", "industry"} \subseteq s.heap[s.ref].columns) THEN s
  ELSE LET tmp     == Copy(s)
           skills  == [k \in DOMAIN RowsOf(tmp) |-> RowsOf(tmp)[k].skills]
           tagged  == SetColumn(tmp, "degree", extract_degrees(skills))
       IN  Where(tagged, { k \in DOMAIN RowsOf(tagged) :
                             RowsOf(tagged)[k].degree # NotSpecified })

\* get_company_intel, lines 654-657, on the objects: co_df
intel_objects(s, company_name) ==
  IF RowsOf(s) = <<>>
     \/ ~\E k \in DOMAIN RowsOf(s) : RowsOf(s)[k].company = company_name
    THEN s
    ELSE Copy(Where(s, { k \in DOMAIN RowsOf(s) :
                           RowsOf(s)[k].company = company_name }))

InitQueries ==
  /\ ScraperUnused
  /\ pc = "loaded"
  /\ inp \in [ df : LoadedFrames ]
  /\ out = <<>>

\* the objects at the start of a call, and the caller's table after it
AtCall == [heap |-> <<inp.df>>, ref |-> 1]
AfterCall(s) == [df |-> s.heap[1]]

HasDates == "date_scraped" \in inp.df.columns
SkillsColumn == [k \in DOMAIN inp.df.rows |-> inp.df.rows[k].skills]

QueryApplyFilters ==
  /\ pc = "loaded"
  /\ \E industries \in SUBSET Industries, job_titles \in SUBSET JobTitles,
        locations \in {{}, {"Sylhet"}} :
       LET s == apply_filters_objects(AtCall, industries, job_titles, locations)
       IN  /\ inp' = AfterCall(s)
           /\ out' = [op |-> "apply_filters", industries |-> industries,
                      job_titles |-> job_titles, locations |-> locations,
                      result |-> RowsOf(s)]
  /\ UNCHANGED pc
  /\ UNCHANGED scraperVars

QueryDegreeCounts ==
  /\ pc = "loaded"
  /\ inp' = AfterCall(AtCall)
  /\ out' = [op |-> "get_degree_counts",
             result |-> get_degree_counts("skills" \in inp.df.columns, SkillsColumn)]
  /\ UNCHANGED pc
  /\ UNCHANGED scraperVars

QueryExperienceLevelCounts ==
  /\ pc = "loaded"
  /\ inp' = AfterCall(AtCall)
  /\ out' = [op |-> "get_experience_level_counts",
             result |-> get_experience_level_counts("skills" \in inp.df.columns,
                                                    SkillsColumn)]
  /\ UNCHANGED pc
  /\ UNCHANGED scraperVars

QueryIndustryEducationMatrix ==
  /\ pc = "loaded"
  /\ LET s == matrix_objects(AtCall)
     IN  /\ inp' = AfterCall(s)
         /\ \E m \in get_industry_education_matrix(
                       {"skills", "industry"} \subseteq inp.df.columns, inp.df.rows) :
              out' = [op |-> "get_industry_education_matrix", result |-> m,
                      tagged |-> Len(RowsOf(s))]
  /\ UNCHANGED pc
  /\ UNCHANGED scraperVars

QueryCompanyIntel ==
  /\ pc = "loaded"
  /\ \E company_name \in Companies :
       LET s == intel_objects(AtCall, company_name)
       IN  /\ inp' = AfterCall(s)
           /\ out' = [op |-> "get_company_intel", company_name |-> company_name,
                      result |-> get_company_intel(company_name, inp.df.rows,
                                                   HasDates, QueryNow)]
  /\ UNCHANGED pc
  /\ UNCHANGED scraperVars

QueryDataFreshness ==
  /\ pc = "loaded"
  /\ inp' = AfterCall(AtCall)
  /\ \E r \in get_data_freshness(
                HasDates,
                IF HasDates THEN [k \in DOMAIN inp.df.rows |-> inp.df.rows[k].date_scraped]
                ELSE <<>>,
                QueryNow) :
       out' = [op |-> "get_data_freshness", result |-> r]
  /\ UNCHANGED pc
  /\ UNCHANGED scraperVars

QueryDeltaJobs ==
  /\ pc = "loaded"
  /\ inp' = AfterCall(AtCall)
  /\ out' = [op |-> "get_delta_jobs",
             result |-> get_delta_jobs(HasDates, inp.df.rows, QueryNow, QueryNow)]
  /\ UNCHANGED pc
  /\ UNCHANGED scraperVars

QueryNewCompaniesToday ==
  /\ pc = "loaded"
  /\ inp' = AfterCall(AtCall)
  /\ out' = [op |-> "get_new_companies_today",
             result |-> get_new_companies_today(HasDates, inp.df.rows, QueryNow)]
  /\ UNCHANGED pc
  /\ UNCHANGED scraperVars

NextQueries ==
  \/ QueryApplyFilters
  \/ QueryDegreeCounts
  \/ QueryExperienceLevelCounts
  \/ QueryIndustryEducationMatrix
  \/ QueryCompanyIntel
  \/ QueryDataFreshness
  \/ QueryDeltaJobs
  \/ QueryNewCompaniesToday

SpecQueries == InitQueries /\ [][NextQueries]_vars

\* C25: a query leaves the table it was given as it was: the same columns,
\* the same rows in the same order, the same values; what apply_filters
\* returns is another table, with the matching rows.
C25_QueriesLeaveCorpus ==
  [][ /\ inp'.df = inp.df
      /\ out'.op = "apply_filters" =>
           /\ out'.result = apply_filters(inp.df.rows, out'.industries,
                                          out'.job_titles, out'.locations)
           /\ \A k \in DOMAIN out'.result :
                \E m \in DOMAIN inp.df.rows : out'.result[k] = inp.df.rows[m]
      /\ out'.op = "get_industry_education_matrix" =>
           /\ "degree" \notin inp'.df.columns
           /\ out'.tagged = Cardinality({ k \in DOMAIN inp.df.rows :
                              DegreeTable[inp.df.rows[k].skills] # NotSpecified }) ]_vars

\* the matrix was computed for a table with a tagged row: the table has no
\* degree column
C25_Witness ==
  /\ out # <<>>
  /\ out.op = "get_industry_education_matrix"
  /\ out.tagged > 0
  /\ Len(inp.df.rows) = 2
  /\ "degree" \notin inp.df.columns
  /\ "degree" \notin DOMAIN inp.df.rows[1]

(***************************************************************************)
(* utils.py: load_data                                                     *)
(***************************************************************************)
\* lines 83-88: the table without rows
EmptyTable ==
  [ raised  |-> FALSE,
    columns |-> << <<"j", "o", "b", "_", "t", "i", "t", "l", "e">>, <<"c", "o", "m", "p", "a", "n", "y">>, <<"s", "a", "l", "a", "r", "y", "_", "m", "i", "n">>, <<"s", "a", "l", "a", "r", "y", "_", "m", "a", "x">>, <<"s", "k", "i", "l", "l", "s">>,
                   <<"i", "n", "d", "u", "s", "t", "r", "y">>, <<"l", "o", "c", "a", "t", "i", "o", "n">> >>,
    rows    |-> <<>> ]

\* what the sheet or the CSV file holds: a header and at most one row
SourceTables ==
  { [ columns |-> header,
      rows |-> [k \in DOMAIN picks |->
                  CleanRow(header, picks[k], NumCell(5), StrCell(<<"4">>))] ] :
      header \in CleanHeaders, picks \in SeqsUpTo(TitleCells, 1) }

\* the sheet: the request raises, or get_all_records() gives the records
SheetStates == { [kind |-> "raises", table |-> <<>>] }
                 \cup { [kind |-> "records", table |-> t] : t \in SourceTables }

\* the CSV file: absent, or a file with a header line
CsvStates == { [kind |-> "absent", table |-> <<>>] }
               \cup { [kind |-> "file", table |-> t] : t \in SourceTables }

\* mutant: the CSV file is read without the test that it exists
load_data_reads_missing_file(creds, src_sheet, src_csv) ==
  IF /\ creds
     /\ src_sheet.kind = "records"
     /\ src_sheet.table.rows # <<>>
     /\ ~clean_dataframe(src_sheet.table).raised
    THEN clean_dataframe(src_sheet.table)
  ELSE IF src_csv.kind = "file" THEN clean_dataframe(src_csv.table)
  ELSE [raised |-> TRUE, columns |-> <<>>, rows |-> <<>>]

\* lines 60-88.  An exception of lines 67-74 is caught (line 75) and the CSV
\* file is tried; an exception of lines 79-80 leaves load_data.
load_data(creds, src_sheet, src_csv) ==
  IF /\ creds
     /\ src_sheet.kind = "records"
     /\ src_sheet.table.rows # <<>>
     /\ ~clean_dataframe(src_sheet.table).raised
    THEN clean_dataframe(src_sheet.table)
  ELSE IF src_csv.kind = "file" THEN clean_dataframe(src_csv.table)
  ELSE EmptyTable

InitLoad ==
  /\ ScraperUnused
  /\ pc = "call"
  /\ inp \in [ creds : BOOLEAN, sheet : SheetStates, csv : CsvStates ]
  /\ out = <<>>

LoadData ==
  /\ pc = "call"
  /\ out' = [op |-> "load_data"] @@ load_data(inp.creds, inp.sheet, inp.csv)
  /\ pc' = "return"
  /\ UNCHANGED inp
  /\ UNCHANGED scraperVars

NextEmptyCorpus == LoadData \/ NextQueries

SpecEmptyCorpus == (InitLoad \/ InitQueries) /\ [][NextEmptyCorpus]_vars

\* the sheet gives load_data no table
SheetYieldsNothing ==
  \/ ~inp.creds
  \/ inp.sheet.kind = "raises"
  \/ inp.sheet.table.rows = <<>>
  \/ ~\E k \in DOMAIN inp.sheet.table.columns :
        NormColTable[inp.sheet.table.columns[k]] = <<"s", "a", "l", "a", "r", "y", "_", "m", "i", "n">>

\* C26: with no table from the sheet and no CSV file load_data returns the
\* table without rows and raises nothing; on a table without rows
\* apply_filters returns no row, get_data_freshness the status "unknown",
\* the daily-delta helpers 0, the degree table no row, the experience table
\* zeros, the matrix nothing, and get_company_intel an error, as it does
\* for a company without a row.
C26_EmptyCorpusIsAResult ==
  /\ (pc = "return" /\ SheetYieldsNothing /\ inp.csv.kind = "absent") =>
       out = [op |-> "load_data"] @@ EmptyTable
  /\ (pc = "loaded" /\ out # <<>>) =>
       /\ (out.op = "get_company_intel"
           /\ ~\E k \in DOMAIN inp.df.rows : inp.df.rows[k].company = out.company_name)
            => out.result.error
       /\ inp.df.rows = <<>> =>
            CASE out.op = "apply_filters" -> out.result = <<>>
              [] out.op = "get_data_freshness" ->
                   out.result.status = "unknown" /\ ~out.result.known
              [] out.op \in {"get_delta_jobs", "get_new_companies_today"} ->
                   out.result = 0
              [] out.op = "get_degree_counts" -> DOMAIN out.result = {}
              [] out.op = "get_experience_level_counts" ->
                   \A l \in DOMAIN out.result : out.result[l] = 0
              [] out.op = "get_industry_education_matrix" ->
                   out.result = EmptyMatrix
              [] out.op = "get_company_intel" -> out.result.error

\* load_data found credentials but a sheet without records, and no CSV file
C26_Witness ==
  /\ pc = "return"
  /\ inp.creds
  /\ inp.sheet.kind = "records"
  /\ inp.sheet.table.rows = <<>>
  /\ inp.csv.kind = "absent"
  /\ out.rows = <<>>
  /\ ~out.raised

(***************************************************************************)
(* ai_summary.py: what the functions make of the reply of the LLM          *)
(***************************************************************************)
\* The values json.loads returns.  n is the integer int() makes of a
\* number, s the characters of a string.
NoFields == [k \in {} |-> 0]
JValue(t, n, s, items, fields) ==
  [t |-> t, n |-> n, s |-> s, items |-> items, fields |-> fields]
JNull        == JValue("null", 0, <<>>, <<>>, NoFields)
JBool(b)     == JValue("bool", IF b THEN 1 ELSE 0, <<>>, <<>>, NoFields)
JInt(n)      == JValue("int", n, <<>>, <<>>, NoFields)
JFloat(n)    == JValue("float", n, <<>>, <<>>, NoFields)
JInf         == JValue("inf", 0, <<>>, <<>>, NoFields)
JNaN         == JValue("nan", 0, <<>>, <<>>, NoFields)
JStr(s)      == JValue("str", 0, s, <<>>, NoFields)
JList(items) == JValue("list", 0, <<>>, items, NoFields)
JObj(fields) == JValue("dict", 0, <<>>, <<>>, fields)

\* the character ` (the parser of TLA+ takes no ` in a string)
Backtick == "\\backtick"

\* the texts _call_groq may return (the warning sign of its own messages
\* is left out)
LlmReplies ==
  { <<"S", "o", "r", "r", "y", ",", " ", "I", " ", "c", "a", "n", "n", "o", "t", " ", "h", "e", "l", "p", ".">>,
    <<"G", "R", "O", "Q", "_", "A", "P", "I", "_", "K", "E", "Y", " ", "n", "o", "t", " ", "s", "e", "t", ".">>,
    <<>>,
    <<"H", "e", "r", "e", " ", "y", "o", "u", " ", "g", "o", ":", " ", "[", "1", "]">>,
    <<"[", "]">>,
    <<"5">>,
    <<"\"", "t", "e", "x", "t", "\"">>,
    <<"n", "u", "l", "l">>,
    <<"t", "r", "u", "e">>,
    <<"[", "1", "]">>,
    <<"[", "\"", "a", "\"", "]">>,
    <<"{", "}">>,
    <<"4", ".", "5">>,
    <<"[", "{", "\"", "j", "o", "b", "_", "i", "d", "\"", ":", " ", "0", ",", " ", "\"", "m", "a", "t", "c", "h", "_", "s", "c", "o", "r", "e", "\"", ":", " ", "9", "0", ",", " ", "\"", "r", "e", "a", "s", "o", "n", "\"", ":", " ", "\"", "f", "i", "t", "\"", "}", "]">>,
    <<"[", "{", "\"", "j", "o", "b", "_", "i", "d", "\"", ":", " ", "\"", "1", "\"", ",", " ", "\"", "m", "a", "t", "c", "h", "_", "s", "c", "o", "r", "e", "\"", ":", " ", "\"", "8", "5", "\"", "}", "]">>,
    <<"[", "{", "\"", "j", "o", "b", "_", "i", "d", "\"", ":", " ", "7", ",", " ", "\"", "m", "a", "t", "c", "h", "_", "s", "c", "o", "r", "e", "\"", ":", " ", "5", "0", "}", "]">>,
    <<"[", "{", "\"", "j", "o", "b", "_", "i", "d", "\"", ":", " ", "0", ",", " ", "\"", "m", "a", "t", "c", "h", "_", "s", "c", "o", "r", "e", "\"", ":", " ", "\"", "h", "i", "g", "h", "\"", "}", "]">>,
    <<"[", "{", "\"", "j", "o", "b", "_", "i", "d", "\"", ":", " ", "0", ",", " ", "\"", "m", "a", "t", "c", "h", "_", "s", "c", "o", "r", "e", "\"", ":", " ", "n", "u", "l", "l", "}", "]">>,
    <<"[", "{", "\"", "m", "a", "t", "c", "h", "_", "s", "c", "o", "r", "e", "\"", ":", " ", "5", "}", "]">>,
    <<"[", "{", "\"", "j", "o", "b", "_", "i", "d", "\"", ":", " ", "0", "}", "]">>,
    <<"[", "{", "\"", "j", "o", "b", "_", "i", "d", "\"", ":", " ", "I", "n", "f", "i", "n", "i", "t", "y", "}", "]">>,
    <<"[", "{", "\"", "j", "o", "b", "_", "i", "d", "\"", ":", " ", "1", ".", "5", ",", " ", "\"", "m", "a", "t", "c", "h", "_", "s", "c", "o", "r", "e", "\"", ":", " ", "7", "0", ".", "9", "}", ",", " ", "3", "]">>,
    <<"{", "\"", "j", "o", "b", "_", "i", "d", "\"", ":", " ", "0", ",", " ", "\"", "m", "a", "t", "c", "h", "_", "s", "c", "o", "r", "e", "\"", ":", " ", "9", "0", "}">>,
    <<"{", "\"", "r", "e", "a", "d", "i", "n", "e", "s", "s", "_", "s", "c", "o", "r", "e", "\"", ":", " ", "8", "5", ",", " ", "\"", "m", "a", "t", "c", "h", "e", "d", "_", "s", "k", "i", "l", "l", "s", "\"", ":", " ", "[", "\"", "s", "q", "l", "\"", "]", ",", " ", "\"", "s", "u", "m", "m", "a", "r", "y", "\"", ":", " ", "\"", "o", "k", "\"", "}">>,
    <<"{", "\"", "r", "e", "a", "d", "i", "n", "e", "s", "s", "_", "s", "c", "o", "r", "e", "\"", ":", " ", "\"", "h", "i", "g", "h", "\"", "}">>,
    <<"{", "\"", "r", "e", "a", "d", "i", "n", "e", "s", "s", "_", "s", "c", "o", "r", "e", "\"", ":", " ", "n", "u", "l", "l", "}">>,
    <<"{", "\"", "r", "e", "a", "d", "i", "n", "e", "s", "s", "_", "s", "c", "o", "r", "e", "\"", ":", " ", "4", "5", ".", "5", "}">>,
    <<"{", "\"", "s", "u", "m", "m", "a", "r", "y", "\"", ":", " ", "\"", "o", "k", "\"", "}">>,
    <<"{", "\"", "m", "i", "n", "_", "s", "a", "l", "a", "r", "y", "\"", ":", " ", "\"", "2", "0", "0", "0", "0", "\"", ",", " ", "\"", "m", "a", "x", "_", "s", "a", "l", "a", "r", "y", "\"", ":", " ", "5", "0", "0", "0", "0", ".", "5", ",", " ", "\"", "m", "e", "d", "i", "a", "n", "_", "s", "a", "l", "a", "r", "y", "\"", ":", " ", "t", "r", "u", "e", "}">>,
    <<"{", "\"", "m", "i", "n", "_", "s", "a", "l", "a", "r", "y", "\"", ":", " ", "1", ",", " ", "\"", "m", "a", "x", "_", "s", "a", "l", "a", "r", "y", "\"", ":", " ", "3", "}">>,
    <<"{", "\"", "m", "i", "n", "_", "s", "a", "l", "a", "r", "y", "\"", ":", " ", "\"", "2", "0", "k", "\"", ",", " ", "\"", "m", "a", "x", "_", "s", "a", "l", "a", "r", "y", "\"", ":", " ", "3", ",", " ", "\"", "m", "e", "d", "i", "a", "n", "_", "s", "a", "l", "a", "r", "y", "\"", ":", " ", "2", "}">>,
    <<"{", "\"", "m", "i", "n", "_", "s", "a", "l", "a", "r", "y", "\"", ":", " ", "n", "u", "l", "l", ",", " ", "\"", "m", "a", "x", "_", "s", "a", "l", "a", "r", "y", "\"", ":", " ", "3", ",", " ", "\"", "m", "e", "d", "i", "a", "n", "_", "s", "a", "l", "a", "r", "y", "\"", ":", " ", "2", "}">>,
    <<"{", "\"", "m", "i", "n", "_", "s", "a", "l", "a", "r", "y", "\"", ":", " ", "I", "n", "f", "i", "n", "i", "t", "y", ",", " ", "\"", "m", "a", "x", "_", "s", "a", "l", "a", "r", "y", "\"", ":", " ", "3", ",", " ", "\"", "m", "e", "d", "i", "a", "n", "_", "s", "a", "l", "a", "r", "y", "\"", ":", " ", "2", "}">>,
    <<"{", "\"", "m", "i", "n", "_", "s", "a", "l", "a", "r", "y", "\"", ":", " ", "1", ",", " ", "\"", "m", "a", "x", "_", "s", "a", "l", "a", "r", "y", "\"", ":", " ", "3", ",", " ", "\"", "m", "e", "d", "i", "a", "n", "_", "s", "a", "l", "a", "r", "y", "\"", ":", " ", "2", ",", " ", "\"", "c", "o", "n", "f", "i", "d", "e", "n", "c", "e", "\"", ":", " ", "\"", "H", "i", "g", "h", "\"", ",", " ", "\"", "n", "e", "g", "o", "t", "i", "a", "t", "i", "o", "n", "_", "t", "i", "p", "s", "\"", ":", " ", "\"", "a", "s", "k", "\"", "}">>,
    <<"[", "\"", "m", "i", "n", "_", "s", "a", "l", "a", "r", "y", "\"", ",", " ", "\"", "m", "a", "x", "_", "s", "a", "l", "a", "r", "y", "\"", ",", " ", "\"", "m", "e", "d", "i", "a", "n", "_", "s", "a", "l", "a", "r", "y", "\"", "]">>,
    <<"\"", "m", "i", "n", "_", "s", "a", "l", "a", "r", "y", " ", "m", "a", "x", "_", "s", "a", "l", "a", "r", "y", " ", "m", "e", "d", "i", "a", "n", "_", "s", "a", "l", "a", "r", "y", "\"">>,
    <<"{", "\"", "m", "i", "n", "_", "s", "a", "l", "a", "r", "y", "\"", ":", " ", "1", ",", " ", "\"", "m", "a", "x", "_", "s", "a", "l", "a", "r", "y", "\"", ":", " ", "1", ",", " ", "\"", "m", "e", "d", "i", "a", "n", "_", "s", "a", "l", "a", "r", "y", "\"", ":", " ", "1", "}">>,
    <<"{", "\"", "m", "i", "n", "_", "s", "a", "l", "a", "r", "y", "\"", ":", " ", "1", ",", " ", "\"", "m", "a", "x", "_", "s", "a", "l", "a", "r", "y", "\"", ":", " ", "1", ",", " ", "\"", "m", "e", "d", "i", "a", "n", "_", "s", "a", "l", "a", "r", "y", "\"", ":", " ", "2", "}">>,
    <<"{", "\"", "m", "i", "n", "_", "s", "a", "l", "a", "r", "y", "\"", ":", " ", "1", ",", " ", "\"", "m", "a", "x", "_", "s", "a", "l", "a", "r", "y", "\"", ":", " ", "1", ",", " ", "\"", "m", "e", "d", "i", "a", "n", "_", "s", "a", "l", "a", "r", "y", "\"", ":", " ", "3", "}">>,
    <<"{", "\"", "m", "i", "n", "_", "s", "a", "l", "a", "r", "y", "\"", ":", " ", "1", ",", " ", "\"", "m", "a", "x", "_", "s", "a", "l", "a", "r", "y", "\"", ":", " ", "2", ",", " ", "\"", "m", "e", "d", "i", "a", "n", "_", "s", "a", "l", "a", "r", "y", "\"", ":", " ", "1", "}">>,
    <<"{", "\"", "m", "i", "n", "_", "s", "a", "l", "a", "r", "y", "\"", ":", " ", "1", ",", " ", "\"", "m", "a", "x", "_", "s", "a", "l", "a", "r", "y", "\"", ":", " ", "2", ",", " ", "\"", "m", "e", "d", "i", "a", "n", "_", "s", "a", "l", "a", "r", "y", "\"", ":", " ", "2", "}">>,
    <<"{", "\"", "m", "i", "n", "_", "s", "a", "l", "a", "r", "y", "\"", ":", " ", "1", ",", " ", "\"", "m", "a", "x", "_", "s", "a", "l", "a", "r", "y", "\"", ":", " ", "2", ",", " ", "\"", "m", "e", "d", "i", "a", "n", "_", "s", "a", "l", "a", "r", "y", "\"", ":", " ", "3", "}">>,
    <<"{", "\"", "m", "i", "n", "_", "s", "a", "l", "a", "r", "y", "\"", ":", " ", "1", ",", " ", "\"", "m", "a", "x", "_", "s", "a", "l", "a", "r", "y", "\"", ":", " ", "3", ",", " ", "\"", "m", "e", "d", "i", "a", "n", "_", "s", "a", "l", "a", "r", "y", "\"", ":", " ", "1", "}">>,
    <<"{", "\"", "m", "i", "n", "_", "s", "a", "l", "a", "r", "y", "\"", ":", " ", "1", ",", " ", "\"", "m", "a", "x", "_", "s", "a", "l", "a", "r", "y", "\"", ":", " ", "3", ",", " ", "\"", "m", "e", "d", "i", "a", "n", "_", "s", "a", "l", "a", "r", "y", "\"", ":", " ", "2", "}">>,
    <<"{", "\"", "m", "i", "n", "_", "s", "a", "l", "a", "r", "y", "\"", ":", " ", "1", ",", " ", "\"", "m", "a", "x", "_", "s", "a", "l", "a", "r", "y", "\"", ":", " ", "3", ",", " ", "\"", "m", "e", "d", "i", "a", "n", "_", "s", "a", "l", "a", "r", "y", "\"", ":", " ", "3", "}">>,
    <<"{", "\"", "m", "i", "n", "_", "s", "a", "l", "a", "r", "y", "\"", ":", " ", "2", ",", " ", "\"", "m", "a", "x", "_", "s", "a", "l", "a", "r", "y", "\"", ":", " ", "1", ",", " ", "\"", "m", "e", "d", "i", "a", "n", "_", "s", "a", "l", "a", "r", "y", "\"", ":", " ", "1", "}">>,
    <<"{", "\"", "m", "i", "n", "_", "s", "a", "l", "a", "r", "y", "\"", ":", " ", "2", ",", " ", "\"", "m", "a", "x", "_", "s", "a", "l", "a", "r", "y", "\"", ":", " ", "1", ",", " ", "\"", "m", "e", "d", "i", "a", "n", "_", "s", "a", "l", "a", "r", "y", "\"", ":", " ", "2", "}">>,
    <<"{", "\"", "m", "i", "n", "_", "s", "a", "l", "a", "r", "y", "\"", ":", " ", "2", ",", " ", "\"", "m", "a", "x", "_", "s", "a", "l", "a", "r", "y", "\"", ":", " ", "1", ",", " ", "\"", "m", "e", "d", "i", "a", "n", "_", "s", "a", "l", "a", "r", "y", "\"", ":", " ", "3", "}">>,
    <<"{", "\"", "m", "i", "n", "_", "s", "a", "l", "a", "r", "y", "\"", ":", " ", "2", ",", " ", "\"", "m", "a", "x", "_", "s", "a", "l", "a", "r", "y", "\"", ":", " ", "2", ",", " ", "\"", "m", "e", "d", "i", "a", "n", "_", "s", "a", "l", "a", "r", "y", "\"", ":", " ", "1", "}">>,
    <<"{", "\"", "m", "i", "n", "_", "s", "a", "l", "a", "r", "y", "\"", ":", " ", "2", ",", " ", "\"", "m", "a", "x", "_", "s", "a", "l", "a", "r", "y", "\"", ":", " ", "2", ",", " ", "\"", "m", "e", "d", "i", "a", "n", "_", "s", "a", "l", "a", "r", "y", "\"", ":", " ", "2", "}">>,
    <<"{", "\"", "m", "i", "n", "_", "s", "a", "l", "a", "r", "y", "\"", ":", " ", "2", ",", " ", "\"", "m", "a", "x", "_", "s", "a", "l", "a", "r", "y", "\"", ":", " ", "2", ",", " ", "\"", "m", "e", "d", "i", "a", "n", "_", "s", "a", "l", "a", "r", "y", "\"", ":", " ", "3", "}">>,
    <<"{", "\"", "m", "i", "n", "_", "s", "a", "l", "a", "r", "y", "\"", ":", " ", "2", ",", " ", "\"", "m", "a", "x", "_", "s", "a", "l", "a", "r", "y", "\"", ":", " ", "3", ",", " ", "\"", "m", "e", "d", "i", "a", "n", "_", "s", "a", "l", "a", "r", "y", "\"", ":", " ", "1", "}">>,
    <<"{", "\"", "m", "i", "n", "_", "s", "a", "l", "a", "r", "y", "\"", ":", " ", "2", ",", " ", "\"", "m", "a", "x", "_", "s", "a", "l", "a", "r", "y", "\"", ":", " ", "3", ",", " ", "\"", "m", "e", "d", "i", "a", "n", "_", "s", "a", "l", "a", "r", "y", "\"", ":", " ", "2", "}">>,
    <<"{", "\"", "m", "i", "n", "_", "s", "a", "l", "a", "r", "y", "\"", ":", " ", "2", ",", " ", "\"", "m", "a", "x", "_", "s", "a", "l", "a", "r", "y", "\"", ":", " ", "3", ",", " ", "\"", "m", "e", "d", "i", "a", "n", "_", "s", "a", "l", "a", "r", "y", "\"", ":", " ", "3", "}">>,
    <<"{", "\"", "m", "i", "n", "_", "s", "a", "l", "a", "r", "y", "\"", ":", " ", "3", ",", " ", "\"", "m", "a", "x", "_", "s", "a", "l", "a", "r", "y", "\"", ":", " ", "1", ",", " ", "\"", "m", "e", "d", "i", "a", "n", "_", "s", "a", "l", "a", "r", "y", "\"", ":", " ", "1", "}">>,
    <<"{", "\"", "m", "i", "n", "_", "s", "a", "l", "a", "r", "y", "\"", ":", " ", "3", ",", " ", "\"", "m", "a", "x", "_", "s", "a", "l", "a", "r", "y", "\"", ":", " ", "1", ",", " ", "\"", "m", "e", "d", "i", "a", "n", "_", "s", "a", "l", "a", "r", "y", "\"", ":", " ", "2", "}">>,
    <<"{", "\"", "m", "i", "n", "_", "s", "a", "l", "a", "r", "y", "\"", ":", " ", "3", ",", " ", "\"", "m", "a", "x", "_", "s", "a", "l", "a", "r", "y", "\"", ":", " ", "1", ",", " ", "\"", "m", "e", "d", "i", "a", "n", "_", "s", "a", "l", "a", "r", "y", "\"", ":", " ", "3", "}">>,
    <<"{", "\"", "m", "i", "n", "_", "s", "a", "l", "a", "r", "y", "\"", ":", " ", "3", ",", " ", "\"", "m", "a", "x", "_", "s", "a", "l", "a", "r", "y", "\"", ":", " ", "2", ",", " ", "\"", "m", "e", "d", "i", "a", "n", "_", "s", "a", "l", "a", "r", "y", "\"", ":", " ", "1", "}">>,
    <<"{", "\"", "m", "i", "n", "_", "s", "a", "l", "a", "r", "y", "\"", ":", " ", "3", ",", " ", "\"", "m", "a", "x", "_", "s", "a", "l", "a", "r", "y", "\"", ":", " ", "2", ",", " ", "\"", "m", "e", "d", "i", "a", "n", "_", "s", "a", "l", "a", "r", "y", "\"", ":", " ", "2", "}">>,
    <<"{", "\"", "m", "i", "n", "_", "s", "a", "l", "a", "r", "y", "\"", ":", " ", "3", ",", " ", "\"", "m", "a", "x", "_", "s", "a", "l", "a", "r", "y", "\"", ":", " ", "2", ",", " ", "\"", "m", "e", "d", "i", "a", "n", "_", "s", "a", "l", "a", "r", "y", "\"", ":", " ", "3", "}">>,
    <<"{", "\"", "m", "i", "n", "_", "s", "a", "l", "a", "r", "y", "\"", ":", " ", "3", ",", " ", "\"", "m", "a", "x", "_", "s", "a", "l", "a", "r", "y", "\"", ":", " ", "3", ",", " ", "\"", "m", "e", "d", "i", "a", "n", "_", "s", "a", "l", "a", "r", "y", "\"", ":", " ", "1", "}">>,
    <<"{", "\"", "m", "i", "n", "_", "s", "a", "l", "a", "r", "y", "\"", ":", " ", "3", ",", " ", "\"", "m", "a", "x", "_", "s", "a", "l", "a", "r", "y", "\"", ":", " ", "3", ",", " ", "\"", "m", "e", "d", "i", "a", "n", "_", "s", "a", "l", "a", "r", "y", "\"", ":", " ", "2", "}">>,
    <<"{", "\"", "m", "i", "n", "_", "s", "a", "l", "a", "r", "y", "\"", ":", " ", "3", ",", " ", "\"", "m", "a", "x", "_", "s", "a", "l", "a", "r", "y", "\"", ":", " ", "3", ",", " ", "\"", "m", "e", "d", "i", "a", "n", "_", "s", "a", "l", "a", "r", "y", "\"", ":", " ", "3", "}">>,
    <<Backtick, Backtick, Backtick, "j", "s", "o", "n", "\n", "[", "{", "\"", "j", "o", "b", "_", "i", "d", "\"", ":", " ", "0", ",", " ", "\"", "m", "a", "t", "c", "h", "_", "s", "c", "o", "r", "e", "\"", ":", " ", "9", "0", ",", " ", "\"", "r", "e", "a", "s", "o", "n", "\"", ":", " ", "\"", "f", "i", "t", "\"", "}", "]", "\n", Backtick, Backtick, Backtick>>,
    <<Backtick, Backtick, Backtick, "\n", "{", "\"", "m", "i", "n", "_", "s", "a", "l", "a", "r", "y", "\"", ":", " ", "3", ",", " ", "\"", "m", "a", "x", "_", "s", "a", "l", "a", "r", "y", "\"", ":", " ", "1", ",", " ", "\"", "m", "e", "d", "i", "a", "n", "_", "s", "a", "l", "a", "r", "y", "\"", ":", " ", "2", "}", "\n", Backtick, Backtick, Backtick>>,
    <<" ", Backtick, Backtick, Backtick, "J", "S", "O", "N", " ", "{", "\"", "r", "e", "a", "d", "i", "n", "e", "s", "s", "_", "s", "c", "o", "r", "e", "\"", ":", " ", "8", "5", "}", " ", Backtick, Backtick, Backtick, " ">>,
    <<Backtick, Backtick, Backtick, "5">>,
    <<Backtick, Backtick, Backtick, Backtick, Backtick, Backtick>> }

\* json.loads on the texts that reach it from these replies; on any other
\* text of the model it raises json.JSONDecodeError
JsonLoadsTable ==
  (<<"[", "]">> :>
        JList(<<>>))
  @@ (<<"5">> :>
        JInt(5))
  @@ (<<"\"", "t", "e", "x", "t", "\"">> :>
        JStr(<<"t", "e", "x", "t">>))
  @@ (<<"n", "u", "l", "l">> :>
        JNull)
  @@ (<<"t", "r", "u", "e">> :>
        JBool(TRUE))
  @@ (<<"[", "1", "]">> :>
        JList(<<JInt(1)>>))
  @@ (<<"[", "\"", "a", "\"", "]">> :>
        JList(<<JStr(<<"a">>)>>))
  @@ (<<"{", "}">> :>
        JObj(NoFields))
  @@ (<<"4", ".", "5">> :>
        JFloat(4))
  @@ (<<"[", "{", "\"", "j", "o", "b", "_", "i", "d", "\"", ":", " ", "0", ",", " ", "\"", "m", "a", "t", "c", "h", "_", "s", "c", "o", "r", "e", "\"", ":", " ", "9", "0", ",", " ", "\"", "r", "e", "a", "s", "o", "n", "\"", ":", " ", "\"", "f", "i", "t", "\"", "}", "]">> :>
        JList(<<JObj(("job_id" :> JInt(0)) @@ ("match_score" :> JInt(90)) @@ ("reason" :> JStr(<<"f", "i", "t">>)))>>))
  @@ (<<"[", "{", "\"", "j", "o", "b", "_", "i", "d", "\"", ":", " ", "\"", "1", "\"", ",", " ", "\"", "m", "a", "t", "c", "h", "_", "s", "c", "o", "r", "e", "\"", ":", " ", "\"", "8", "5", "\"", "}", "]">> :>
        JList(<<JObj(("job_id" :> JStr(<<"1">>)) @@ ("match_score" :> JStr(<<"8", "5">>)))>>))
  @@ (<<"[", "{", "\"", "j", "o", "b", "_", "i", "d", "\"", ":", " ", "7", ",", " ", "\"", "m", "a", "t", "c", "h", "_", "s", "c", "o", "r", "e", "\"", ":", " ", "5", "0", "}", "]">> :>
        JList(<<JObj(("job_id" :> JInt(7)) @@ ("match_score" :> JInt(50)))>>))
  @@ (<<"[", "{", "\"", "j", "o", "b", "_", "i", "d", "\"", ":", " ", "0", ",", " ", "\"", "m", "a", "t", "c", "h", "_", "s", "c", "o", "r", "e", "\"", ":", " ", "\"", "h", "i", "g", "h", "\"", "}", "]">> :>
        JList(<<JObj(("job_id" :> JInt(0)) @@ ("match_score" :> JStr(<<"h", "i", "g", "h">>)))>>))
  @@ (<<"[", "{", "\"", "j", "o", "b", "_", "i", "d", "\"", ":", " ", "0", ",", " ", "\"", "m", "a", "t", "c", "h", "_", "s", "c", "o", "r", "e", "\"", ":", " ", "n", "u", "l", "l", "}", "]">> :>
        JList(<<JObj(("job_id" :> JInt(0)) @@ ("match_score" :> JNull))>>))
  @@ (<<"[", "{", "\"", "m", "a", "t", "c", "h", "_", "s", "c", "o", "r", "e", "\"", ":", " ", "5", "}", "]">> :>
        JList(<<JObj(("match_score" :> JInt(5)))>>))
  @@ (<<"[", "{", "\"", "j", "o", "b", "_", "i", "d", "\"", ":", " ", "0", "}", "]">> :>
        JList(<<JObj(("job_id" :> JInt(0)))>>))
  @@ (<<"[", "{", "\"", "j", "o", "b", "_", "i", "d", "\"", ":", " ", "I", "n", "f", "i", "n", "i", "t", "y", "}", "]">> :>
        JList(<<JObj(("job_id" :> JInf))>>))
  @@ (<<"[", "{", "\"", "j", "o", "b", "_", "i", "d", "\"", ":", " ", "1", ".", "5", ",", " ", "\"", "m", "a", "t", "c", "h", "_", "s", "c", "o", "r", "e", "\"", ":", " ", "7", "0", ".", "9", "}", ",", " ", "3", "]">> :>
        JList(<<JObj(("job_id" :> JFloat(1)) @@ ("match_score" :> JFloat(70))), JInt(3)>>))
  @@ (<<"{", "\"", "j", "o", "b", "_", "i", "d", "\"", ":", " ", "0", ",", " ", "\"", "m", "a", "t", "c", "h", "_", "s", "c", "o", "r", "e", "\"", ":", " ", "9", "0", "}">> :>
        JObj(("job_id" :> JInt(0)) @@ ("match_score" :> JInt(90))))
  @@ (<<"{", "\"", "r", "e", "a", "d", "i", "n", "e", "s", "s", "_", "s", "c", "o", "r", "e", "\"", ":", " ", "8", "5", ",", " ", "\"", "m", "a", "t", "c", "h", "e", "d", "_", "s", "k", "i", "l", "l", "s", "\"", ":", " ", "[", "\"", "s", "q", "l", "\"", "]", ",", " ", "\"", "s", "u", "m", "m", "a", "r", "y", "\"", ":", " ", "\"", "o", "k", "\"", "}">> :>
        JObj(("readiness_score" :> JInt(85)) @@ ("matched_skills" :> JList(<<JStr(<<"s", "q", "l">>)>>)) @@ ("summary" :> JStr(<<"o", "k">>))))
  @@ (<<"{", "\"", "r", "e", "a", "d", "i", "n", "e", "s", "s", "_", "s", "c", "o", "r", "e", "\"", ":", " ", "\"", "h", "i", "g", "h", "\"", "}">> :>
        JObj(("readiness_score" :> JStr(<<"h", "i", "g", "h">>))))
  @@ (<<"{", "\"", "r", "e", "a", "d", "i", "n", "e", "s", "s", "_", "s", "c", "o", "r", "e", "\"", ":", " ", "n", "u", "l", "l", "}">> :>
        JObj(("readiness_score" :> JNull)))
  @@ (<<"{", "\"", "r", "e", "a", "d", "i", "n", "e", "s", "s", "_", "s", "c", "o", "r", "e", "\"", ":", " ", "4", "5", ".", "5", "}">> :>
        JObj(("readiness_score" :> JFloat(45))))
  @@ (<<"{", "\"", "s", "u", "m", "m", "a", "r", "y", "\"", ":", " ", "\"", "o", "k", "\"", "}">> :>
        JObj(("summary" :> JStr(<<"o", "k">>))))
  @@ (<<"{", "\"", "m", "i", "n", "_", "s", "a", "l", "a", "r", "y", "\"", ":", " ", "\"", "2", "0", "0", "0", "0", "\"", ",", " ", "\"", "m", "a", "x", "_", "s", "a", "l", "a", "r", "y", "\"", ":", " ", "5", "0", "0", "0", "0", ".", "5", ",", " ", "\"", "m", "e", "d", "i", "a", "n", "_", "s", "a", "l", "a", "r", "y", "\"", ":", " ", "t", "r", "u", "e", "}">> :>
        JObj(("min_salary" :> JStr(<<"2", "0", "0", "0", "0">>)) @@ ("max_salary" :> JFloat(50000)) @@ ("median_salary" :> JBool(TRUE))))
  @@ (<<"{", "\"", "m", "i", "n", "_", "s", "a", "l", "a", "r", "y", "\"", ":", " ", "1", ",", " ", "\"", "m", "a", "x", "_", "s", "a", "l", "a", "r", "y", "\"", ":", " ", "3", "}">> :>
        JObj(("min_salary" :> JInt(1)) @@ ("max_salary" :> JInt(3))))
  @@ (<<"{", "\"", "m", "i", "n", "_", "s", "a", "l", "a", "r", "y", "\"", ":", " ", "\"", "2", "0", "k", "\"", ",", " ", "\"", "m", "a", "x", "_", "s", "a", "l", "a", "r", "y", "\"", ":", " ", "3", ",", " ", "\"", "m", "e", "d", "i", "a", "n", "_", "s", "a", "l", "a", "r", "y", "\"", ":", " ", "2", "}">> :>
        JObj(("min_salary" :> JStr(<<"2", "0", "k">>)) @@ ("max_salary" :> JInt(3)) @@ ("median_salary" :> JInt(2))))
  @@ (<<"{", "\"", "m", "i", "n", "_", "s", "a", "l", "a", "r", "y", "\"", ":", " ", "n", "u", "l", "l", ",", " ", "\"", "m", "a", "x", "_", "s", "a", "l", "a", "r", "y", "\"", ":", " ", "3", ",", " ", "\"", "m", "e", "d", "i", "a", "n", "_", "s", "a", "l", "a", "r", "y", "\"", ":", " ", "2", "}">> :>
        JObj(("min_salary" :> JNull) @@ ("max_salary" :> JInt(3)) @@ ("median_salary" :> JInt(2))))
  @@ (<<"{", "\"", "m", "i", "n", "_", "s", "a", "l", "a", "r", "y", "\"", ":", " ", "I", "n", "f", "i", "n", "i", "t", "y", ",", " ", "\"", "m", "a", "x", "_", "s", "a", "l", "a", "r", "y", "\"", ":", " ", "3", ",", " ", "\"", "m", "e", "d", "i", "a", "n", "_", "s", "a", "l", "a", "r", "y", "\"", ":", " ", "2", "}">> :>
        JObj(("min_salary" :> JInf) @@ ("max_salary" :> JInt(3)) @@ ("median_salary" :> JInt(2))))
  @@ (<<"{", "\"", "m", "i", "n", "_", "s", "a", "l", "a", "r", "y", "\"", ":", " ", "1", ",", " ", "\"", "m", "a", "x", "_", "s", "a", "l", "a", "r", "y", "\"", ":", " ", "3", ",", " ", "\"", "m", "e", "d", "i", "a", "n", "_", "s", "a", "l", "a", "r", "y", "\"", ":", " ", "2", ",", " ", "\"", "c", "o", "n", "f", "i", "d", "e", "n", "c", "e", "\"", ":", " ", "\"", "H", "i", "g", "h", "\"", ",", " ", "\"", "n", "e", "g", "o", "t", "i", "a", "t", "i", "o", "n", "_", "t", "i", "p", "s", "\"", ":", " ", "\"", "a", "s", "k", "\"", "}">> :>
        JObj(("min_salary" :> JInt(1)) @@ ("max_salary" :> JInt(3)) @@ ("median_salary" :> JInt(2)) @@ ("confidence" :> JStr(<<"H", "i", "g", "h">>)) @@ ("negotiation_tips" :> JStr(<<"a", "s", "k">>))))
  @@ (<<"[", "\"", "m", "i", "n", "_", "s", "a", "l", "a", "r", "y", "\"", ",", " ", "\"", "m", "a", "x", "_", "s", "a", "l", "a", "r", "y", "\"", ",", " ", "\"", "m", "e", "d", "i", "a", "n", "_", "s", "a", "l", "a", "r", "y", "\"", "]">> :>
        JList(<<JStr(<<"m", "i", "n", "_", "s", "a", "l", "a", "r", "y">>), JStr(<<"m", "a", "x", "_", "s", "a", "l", "a", "r", "y">>), JStr(<<"m", "e", "d", "i", "a", "n", "_", "s", "a", "l", "a", "r", "y">>)>>))
  @@ (<<"\"", "m", "i", "n", "_", "s", "a", "l", "a", "r", "y", " ", "m", "a", "x", "_", "s", "a", "l", "a", "r", "y", " ", "m", "e", "d", "i", "a", "n", "_", "s", "a", "l", "a", "r", "y", "\"">> :>
        JStr(<<"m", "i", "n", "_", "s", "a", "l", "a", "r", "y", " ", "m", "a", "x", "_", "s", "a", "l", "a", "r", "y", " ", "m", "e", "d", "i", "a", "n", "_", "s", "a", "l", "a", "r", "y">>))
  @@ (<<"{", "\"", "m", "i", "n", "_", "s", "a", "l", "a", "r", "y", "\"", ":", " ", "1", ",", " ", "\"", "m", "a", "x", "_", "s", "a", "l", "a", "r", "y", "\"", ":", " ", "1", ",", " ", "\"", "m", "e", "d", "i", "a", "n", "_", "s", "a", "l", "a", "r", "y", "\"", ":", " ", "1", "}">> :>
        JObj(("min_salary" :> JInt(1)) @@ ("max_salary" :> JInt(1)) @@ ("median_salary" :> JInt(1))))
  @@ (<<"{", "\"", "m", "i", "n", "_", "s", "a", "l", "a", "r", "y", "\"", ":", " ", "1", ",", " ", "\"", "m", "a", "x", "_", "s", "a", "l", "a", "r", "y", "\"", ":", " ", "1", ",", " ", "\"", "m", "e", "d", "i", "a", "n", "_", "s", "a", "l", "a", "r", "y", "\"", ":", " ", "2", "}">> :>
        JObj(("min_salary" :> JInt(1)) @@ ("max_salary" :> JInt(1)) @@ ("median_salary" :> JInt(2))))
  @@ (<<"{", "\"", "m", "i", "n", "_", "s", "a", "l", "a", "r", "y", "\"", ":", " ", "1", ",", " ", "\"", "m", "a", "x", "_", "s", "a", "l", "a", "r", "y", "\"", ":", " ", "1", ",", " ", "\"", "m", "e", "d", "i", "a", "n", "_", "s", "a", "l", "a", "r", "y", "\"", ":", " ", "3", "}">> :>
        JObj(("min_salary" :> JInt(1)) @@ ("max_salary" :> JInt(1)) @@ ("median_salary" :> JInt(3))))
  @@ (<<"{", "\"", "m", "i", "n", "_", "s", "a", "l", "a", "r", "y", "\"", ":", " ", "1", ",", " ", "\"", "m", "a", "x", "_", "s", "a", "l", "a", "r", "y", "\"", ":", " ", "2", ",", " ", "\"", "m", "e", "d", "i", "a", "n", "_", "s", "a", "l", "a", "r", "y", "\"", ":", " ", "1", "}">> :>
        JObj(("min_salary" :> JInt(1)) @@ ("max_salary" :> JInt(2)) @@ ("median_salary" :> JInt(1))))
  @@ (<<"{", "\"", "m", "i", "n", "_", "s", "a", "l", "a", "r", "y", "\"", ":", " ", "1", ",", " ", "\"", "m", "a", "x", "_", "s", "a", "l", "a", "r", "y", "\"", ":", " ", "2", ",", " ", "\"", "m", "e", "d", "i", "a", "n", "_", "s", "a", "l", "a", "r", "y", "\"", ":", " ", "2", "}">> :>
        JObj(("min_salary" :> JInt(1)) @@ ("max_salary" :> JInt(2)) @@ ("median_salary" :> JInt(2))))
  @@ (<<"{", "\"", "m", "i", "n", "_", "s", "a", "l", "a", "r", "y", "\"", ":", " ", "1", ",", " ", "\"", "m", "a", "x", "_", "s", "a", "l", "a", "r", "y", "\"", ":", " ", "2", ",", " ", "\"", "m", "e", "d", "i", "a", "n", "_", "s", "a", "l", "a", "r", "y", "\"", ":", " ", "3", "}">> :>
        JObj(("min_salary" :> JInt(1)) @@ ("max_salary" :> JInt(2)) @@ ("median_salary" :> JInt(3))))
  @@ (<<"{", "\"", "m", "i", "n", "_", "s", "a", "l", "a", "r", "y", "\"", ":", " ", "1", ",", " ", "\"", "m", "a", "x", "_", "s", "a", "l", "a", "r", "y", "\"", ":", " ", "3", ",", " ", "\"", "m", "e", "d", "i", "a", "n", "_", "s", "a", "l", "a", "r", "y", "\"", ":", " ", "1", "}">> :>
        JObj(("min_salary" :> JInt(1)) @@ ("max_salary" :> JInt(3)) @@ ("median_salary" :> JInt(1))))
  @@ (<<"{", "\"", "m", "i", "n", "_", "s", "a", "l", "a", "r", "y", "\"", ":", " ", "1", ",", " ", "\"", "m", "a", "x", "_", "s", "a", "l", "a", "r", "y", "\"", ":", " ", "3", ",", " ", "\"", "m", "e", "d", "i", "a", "n", "_", "s", "a", "l", "a", "r", "y", "\"", ":", " ", "2", "}">> :>
        JObj(("min_salary" :> JInt(1)) @@ ("max_salary" :> JInt(3)) @@ ("median_salary" :> JInt(2))))
  @@ (<<"{", "\"", "m", "i", "n", "_", "s", "a", "l", "a", "r", "y", "\"", ":", " ", "1", ",", " ", "\"", "m", "a", "x", "_", "s", "a", "l", "a", "r", "y", "\"", ":", " ", "3", ",", " ", "\"", "m", "e", "d", "i", "a", "n", "_", "s", "a", "l", "a", "r", "y", "\"", ":", " ", "3", "}">> :>
        JObj(("min_salary" :> JInt(1)) @@ ("max_salary" :> JInt(3)) @@ ("median_salary" :> JInt(3))))
  @@ (<<"{", "\"", "m", "i", "n", "_", "s", "a", "l", "a", "r", "y", "\"", ":", " ", "2", ",", " ", "\"", "m", "a", "x", "_", "s", "a", "l", "a", "r", "y", "\"", ":", " ", "1", ",", " ", "\"", "m", "e", "d", "i", "a", "n", "_", "s", "a", "l", "a", "r", "y", "\"", ":", " ", "1", "}">> :>
        JObj(("min_salary" :> JInt(2)) @@ ("max_salary" :> JInt(1)) @@ ("median_salary" :> JInt(1))))
  @@ (<<"{", "\"", "m", "i", "n", "_", "s", "a", "l", "a", "r", "y", "\"", ":", " ", "2", ",", " ", "\"", "m", "a", "x", "_", "s", "a", "l", "a", "r", "y", "\"", ":", " ", "1", ",", " ", "\"", "m", "e", "d", "i", "a", "n", "_", "s", "a", "l", "a", "r", "y", "\"", ":", " ", "2", "}">> :>
        JObj(("min_salary" :> JInt(2)) @@ ("max_salary" :> JInt(1)) @@ ("median_salary" :> JInt(2))))
  @@ (<<"{", "\"", "m", "i", "n", "_", "s", "a", "l", "a", "r", "y", "\"", ":", " ", "2", ",", " ", "\"", "m", "a", "x", "_", "s", "a", "l", "a", "r", "y", "\"", ":", " ", "1", ",", " ", "\"", "m", "e", "d", "i", "a", "n", "_", "s", "a", "l", "a", "r", "y", "\"", ":", " ", "3", "}">> :>
        JObj(("min_salary" :> JInt(2)) @@ ("max_salary" :> JInt(1)) @@ ("median_salary" :> JInt(3))))
  @@ (<<"{", "\"", "m", "i", "n", "_", "s", "a", "l", "a", "r", "y", "\"", ":", " ", "2", ",", " ", "\"", "m", "a", "x", "_", "s", "a", "l", "a", "r", "y", "\"", ":", " ", "2", ",", " ", "\"", "m", "e", "d", "i", "a", "n", "_", "s", "a", "l", "a", "r", "y", "\"", ":", " ", "1", "}">> :>
        JObj(("min_salary" :> JInt(2)) @@ ("max_salary" :> JInt(2)) @@ ("median_salary" :> JInt(1))))
  @@ (<<"{", "\"", "m", "i", "n", "_", "s", "a", "l", "a", "r", "y", "\"", ":", " ", "2", ",", " ", "\"", "m", "a", "x", "_", "s", "a", "l", "a", "r", "y", "\"", ":", " ", "2", ",", " ", "\"", "m", "e", "d", "i", "a", "n", "_", "s", "a", "l", "a", "r", "y", "\"", ":", " ", "2", "}">> :>
        JObj(("min_salary" :> JInt(2)) @@ ("max_salary" :> JInt(2)) @@ ("median_salary" :> JInt(2))))
  @@ (<<"{", "\"", "m", "i", "n", "_", "s", "a", "l", "a", "r", "y", "\"", ":", " ", "2", ",", " ", "\"", "m", "a", "x", "_", "s", "a", "l", "a", "r", "y", "\"", ":", " ", "2", ",", " ", "\"", "m", "e", "d", "i", "a", "n", "_", "s", "a", "l", "a", "r", "y", "\"", ":", " ", "3", "}">> :>
        JObj(("min_salary" :> JInt(2)) @@ ("max_salary" :> JInt(2)) @@ ("median_salary" :> JInt(3))))
  @@ (<<"{", "\"", "m", "i", "n", "_", "s", "a", "l", "a", "r", "y", "\"", ":", " ", "2", ",", " ", "\"", "m", "a", "x", "_", "s", "a", "l", "a", "r", "y", "\"", ":", " ", "3", ",", " ", "\"", "m", "e", "d", "i", "a", "n", "_", "s", "a", "l", "a", "r", "y", "\"", ":", " ", "1", "}">> :>
        JObj(("min_salary" :> JInt(2)) @@ ("max_salary" :> JInt(3)) @@ ("median_salary" :> JInt(1))))
  @@ (<<"{", "\"", "m", "i", "n", "_", "s", "a", "l", "a", "r", "y", "\"", ":", " ", "2", ",", " ", "\"", "m", "a", "x", "_", "s", "a", "l", "a", "r", "y", "\"", ":", " ", "3", ",", " ", "\"", "m", "e", "d", "i", "a", "n", "_", "s", "a", "l", "a", "r", "y", "\"", ":", " ", "2", "}">> :>
        JObj(("min_salary" :> JInt(2)) @@ ("max_salary" :> JInt(3)) @@ ("median_salary" :> JInt(2))))
  @@ (<<"{", "\"", "m", "i", "n", "_", "s", "a", "l", "a", "r", "y", "\"", ":", " ", "2", ",", " ", "\"", "m", "a", "x", "_", "s", "a", "l", "a", "r", "y", "\"", ":", " ", "3", ",", " ", "\"", "m", "e", "d", "i", "a", "n", "_", "s", "a", "l", "a", "r", "y", "\"", ":", " ", "3", "}">> :>
        JObj(("min_salary" :> JInt(2)) @@ ("max_salary" :> JInt(3)) @@ ("median_salary" :> JInt(3))))
  @@ (<<"{", "\"", "m", "i", "n", "_", "s", "a", "l", "a", "r", "y", "\"", ":", " ", "3", ",", " ", "\"", "m", "a", "x", "_", "s", "a", "l", "a", "r", "y", "\"", ":", " ", "1", ",", " ", "\"", "m", "e", "d", "i", "a", "n", "_", "s", "a", "l", "a", "r", "y", "\"", ":", " ", "1", "}">> :>
        JObj(("min_salary" :> JInt(3)) @@ ("max_salary" :> JInt(1)) @@ ("median_salary" :> JInt(1))))
  @@ (<<"{", "\"", "m", "i", "n", "_", "s", "a", "l", "a", "r", "y", "\"", ":", " ", "3", ",", " ", "\"", "m", "a", "x", "_", "s", "a", "l", "a", "r", "y", "\"", ":", " ", "1", ",", " ", "\"", "m", "e", "d", "i", "a", "n", "_", "s", "a", "l", "a", "r", "y", "\"", ":", " ", "2", "}">> :>
        JObj(("min_salary" :> JInt(3)) @@ ("max_salary" :> JInt(1)) @@ ("median_salary" :> JInt(2))))
  @@ (<<"{", "\"", "m", "i", "n", "_", "s", "a", "l", "a", "r", "y", "\"", ":", " ", "3", ",", " ", "\"", "m", "a", "x", "_", "s", "a", "l", "a", "r", "y", "\"", ":", " ", "1", ",", " ", "\"", "m", "e", "d", "i", "a", "n", "_", "s", "a", "l", "a", "r", "y", "\"", ":", " ", "3", "}">> :>
        JObj(("min_salary" :> JInt(3)) @@ ("max_salary" :> JInt(1)) @@ ("median_salary" :> JInt(3))))
  @@ (<<"{", "\"", "m", "i", "n", "_", "s", "a", "l", "a", "r", "y", "\"", ":", " ", "3", ",", " ", "\"", "m", "a", "x", "_", "s", "a", "l", "a", "r", "y", "\"", ":", " ", "2", ",", " ", "\"", "m", "e", "d", "i", "a", "n", "_", "s", "a", "l", "a", "r", "y", "\"", ":", " ", "1", "}">> :>
        JObj(("min_salary" :> JInt(3)) @@ ("max_salary" :> JInt(2)) @@ ("median_salary" :> JInt(1))))
  @@ (<<"{", "\"", "m", "i", "n", "_", "s", "a", "l", "a", "r", "y", "\"", ":", " ", "3", ",", " ", "\"", "m", "a", "x", "_", "s", "a", "l", "a", "r", "y", "\"", ":", " ", "2", ",", " ", "\"", "m", "e", "d", "i", "a", "n", "_", "s", "a", "l", "a", "r", "y", "\"", ":", " ", "2", "}">> :>
        JObj(("min_salary" :> JInt(3)) @@ ("max_salary" :> JInt(2)) @@ ("median_salary" :> JInt(2))))
  @@ (<<"{", "\"", "m", "i", "n", "_", "s", "a", "l", "a", "r", "y", "\"", ":", " ", "3", ",", " ", "\"", "m", "a", "x", "_", "s", "a", "l", "a", "r", "y", "\"", ":", " ", "2", ",", " ", "\"", "m", "e", "d", "i", "a", "n", "_", "s", "a", "l", "a", "r", "y", "\"", ":", " ", "3", "}">> :>
        JObj(("min_salary" :> JInt(3)) @@ ("max_salary" :> JInt(2)) @@ ("median_salary" :> JInt(3))))
  @@ (<<"{", "\"", "m", "i", "n", "_", "s", "a", "l", "a", "r", "y", "\"", ":", " ", "3", ",", " ", "\"", "m", "a", "x", "_", "s", "a", "l", "a", "r", "y", "\"", ":", " ", "3", ",", " ", "\"", "m", "e", "d", "i", "a", "n", "_", "s", "a", "l", "a", "r", "y", "\"", ":", " ", "1", "}">> :>
        JObj(("min_salary" :> JInt(3)) @@ ("max_salary" :> JInt(3)) @@ ("median_salary" :> JInt(1))))
  @@ (<<"{", "\"", "m", "i", "n", "_", "s", "a", "l", "a", "r", "y", "\"", ":", " ", "3", ",", " ", "\"", "m", "a", "x", "_", "s", "a", "l", "a", "r", "y", "\"", ":", " ", "3", ",", " ", "\"", "m", "e", "d", "i", "a", "n", "_", "s", "a", "l", "a", "r", "y", "\"", ":", " ", "2", "}">> :>
        JObj(("min_salary" :> JInt(3)) @@ ("max_salary" :> JInt(3)) @@ ("median_salary" :> JInt(2))))
  @@ (<<"{", "\"", "m", "i", "n", "_", "s", "a", "l", "a", "r", "y", "\"", ":", " ", "3", ",", " ", "\"", "m", "a", "x", "_", "s", "a", "l", "a", "r", "y", "\"", ":", " ", "3", ",", " ", "\"", "m", "e", "d", "i", "a", "n", "_", "s", "a", "l", "a", "r", "y", "\"", ":", " ", "3", "}">> :>
        JObj(("min_salary" :> JInt(3)) @@ ("max_salary" :> JInt(3)) @@ ("median_salary" :> JInt(3))))
  @@ (<<"{", "\"", "r", "e", "a", "d", "i", "n", "e", "s", "s", "_", "s", "c", "o", "r", "e", "\"", ":", " ", "8", "5", "}">> :>
        JObj(("readiness_score" :> JInt(85))))

\* json.loads(text)
json_loads(text) ==
  IF text \in DOMAIN JsonLoadsTable
    THEN [raised |-> "", value |-> JsonLoadsTable[text]]
    ELSE [raised |-> "JSONDecodeError", value |-> JNull]

StartsWith(text, prefix) ==
  Len(text) >= Len(prefix) /\ SubSeq(text, 1, Len(prefix)) = prefix

Fence == <<Backtick, Backtick, Backtick>>

\* clean.split("```")[1] of a text that starts with the fence: what stands
\* between the first fence and the next one, or the end
AfterFence(clean) ==
  LET rest == SubSeq(clean, Len(Fence) + 1, Len(clean))
      ends == { k \in 1 .. Len(rest) : StartsWith(SubSeq(rest, k, Len(rest)), Fence) }
  IN  IF ends = {} THEN rest
      ELSE SubSeq(rest, 1, (CHOOSE k \in ends : \A m \in ends : k <= m) - 1)

\* lines 196-201, 315-320 and 453-458: the reply without its fence, parsed
parse_reply(raw) ==
  LET clean    == Strip(raw)
      unfenced == IF StartsWith(clean, Fence)
                    THEN LET inner == AfterFence(clean)
                         IN  IF StartsWith(Lower(inner), <<"j", "s", "o", "n">>)
                               THEN SubSeq(inner, 5, Len(inner))
                               ELSE inner
                    ELSE clean
  IN  json_loads(Strip(unfenced))

ParsedReply == [ raw \in LlmReplies |-> parse_reply(raw) ]

\* the keys the functions look up, as the characters `in` compares
KeyChars ==
  ("min_salary" :> <<"m", "i", "n", "_", "s", "a", "l", "a", "r", "y">>) @@ ("max_salary" :> <<"m", "a", "x", "_", "s", "a", "l", "a", "r", "y">>)
  @@ ("median_salary" :> <<"m", "e", "d", "i", "a", "n", "_", "s", "a", "l", "a", "r", "y">>)
  @@ ("readiness_score" :> <<"r", "e", "a", "d", "i", "n", "e", "s", "s", "_", "s", "c", "o", "r", "e">>)
  @@ ("matched_skills" :> <<"m", "a", "t", "c", "h", "e", "d", "_", "s", "k", "i", "l", "l", "s">>)
  @@ ("missing_critical" :> <<"m", "i", "s", "s", "i", "n", "g", "_", "c", "r", "i", "t", "i", "c", "a", "l">>)
  @@ ("missing_optional" :> <<"m", "i", "s", "s", "i", "n", "g", "_", "o", "p", "t", "i", "o", "n", "a", "l">>)
  @@ ("strengths" :> <<"s", "t", "r", "e", "n", "g", "t", "h", "s">>) @@ ("top_roles" :> <<"t", "o", "p", "_", "r", "o", "l", "e", "s">>)
  @@ ("summary" :> <<"s", "u", "m", "m", "a", "r", "y">>)

Raises(exception) == [raised |-> exception, n |-> 0]

\* int(text) of a string: an optional sign and digits
IntOfText(text) ==
  LET signed == text # <<>> /\ text[1] \in {"+", "-"}
      digits == IF signed THEN Tail(text) ELSE text
  IN  IF digits # <<>> /\ \A k \in DOMAIN digits : IsDigit(digits[k])
        THEN [raised |-> "",
              n |-> IF signed /\ text[1] = "-" THEN 0 - DigitsValue(digits)
                    ELSE DigitsValue(digits)]
        ELSE Raises("ValueError")

\* int(v) of a value of a reply
int_of(v) ==
  CASE v.t \in {"int", "float", "bool"} -> [raised |-> "", n |-> v.n]
    [] v.t = "inf" -> Raises("OverflowError")
    [] v.t = "nan" -> Raises("ValueError")
    [] v.t = "str" -> IntOfText(Strip(v.s))
    [] OTHER -> Raises("TypeError")

\* `key in result`, where it does not raise
HasKey(result, key) ==
  CASE result.t = "dict" -> key \in DOMAIN result.fields
    [] result.t = "list" ->
         \E k \in DOMAIN result.items :
           result.items[k].t = "str" /\ result.items[k].s = KeyChars[key]
    [] result.t = "str" -> Contains(result.s, KeyChars[key])

\* d.get(key, default)
GetField(d, key, default) ==
  IF key \in DOMAIN d.fields THEN d.fields[key] ELSE default

\* what a function hands back: an exception that leaves it, a value with an
\* error message, or a result
Raised(exception) == [raised |-> exception, error |-> FALSE]
ErrorValue        == [raised |-> "", error |-> TRUE]

\* top_n of generate_job_recommendations (line 154), the size of its sample
\* (line 159) and the readiness score a reply leaves out (line 327)
RecommendationsTopN == 5
SampleMax           == 80
DefaultReadiness    == 50

\* lines 209-225: the loop over matches[:top_n], from the k-th match on
RECURSIVE recommend_matches(_, _, _, _)
recommend_matches(matches, k, sample_len, results) ==
  IF k > Min(RecommendationsTopN, Len(matches))
    THEN [raised |-> "", results |-> results]
  ELSE IF matches[k].t # "dict" THEN [raised |-> "AttributeError", results |-> <<>>]
  ELSE LET job_id == int_of(GetField(matches[k], "job_id", JNull))
       IN  IF job_id.raised \in {"TypeError", "ValueError"}
             THEN recommend_matches(matches, k + 1, sample_len, results)
           ELSE IF job_id.raised # ""
             THEN [raised |-> job_id.raised, results |-> <<>>]
           ELSE IF job_id.n \notin 0 .. (sample_len - 1)
             THEN recommend_matches(matches, k + 1, sample_len, results)
           ELSE LET score == int_of(GetField(matches[k], "match_score", JInt(0)))
                IN  IF score.raised # ""
                      THEN [raised |-> score.raised, results |-> <<>>]
                      ELSE recommend_matches(matches, k + 1, sample_len,
                             Append(results, [rank |-> k, job_id |-> job_id.n,
                                              match_score |-> score.n]))

\* lines 151-229; df_len is len(df)
generate_job_recommendations(df_len, raw) ==
  IF df_len = 0 THEN ErrorValue
  ELSE LET parsed == ParsedReply[raw]
       IN  IF parsed.raised # "" THEN ErrorValue
           ELSE IF parsed.value.t # "list" THEN ErrorValue
           ELSE LET r == recommend_matches(parsed.value.items, 1,
                                           Min(SampleMax, df_len), <<>>)
                IN  IF r.raised # "" THEN Raised(r.raised)
                    ELSE IF r.results = <<>> THEN ErrorValue
                    ELSE [raised |-> "", error |-> FALSE, results |-> r.results]

GapKeys ==
  <<"readiness_score", "matched_skills", "missing_critical",
    "missing_optional", "strengths", "top_roles", "summary">>

\* lines 324-344: the defaults, the score and its label
skill_gap_result(result) ==
  IF result.t \notin {"dict", "list", "str"} THEN Raised("TypeError")
  ELSE IF result.t # "dict" THEN
         IF \E k \in DOMAIN GapKeys : ~HasKey(result, GapKeys[k])
           THEN Raised("TypeError")
           ELSE Raised("AttributeError")
  ELSE LET score == int_of(GetField(result, "readiness_score",
                                    JInt(DefaultReadiness)))
       IN  IF score.raised # "" THEN Raised(score.raised)
           ELSE [raised |-> "", error |-> FALSE, readiness_score |-> score.n,
                 score_label |->
                   IF score.n >= 80 THEN "Strong"
                   ELSE IF score.n >= 60 THEN "Good"
                   ELSE IF score.n >= 40 THEN "Developing"
                   ELSE "Early Stage"]

\* lines 267-344; blank is `not user_profile.strip()`, column is df["skills"]
analyze_skill_gap(blank, column, raw) ==
  IF column = <<>> THEN ErrorValue
  ELSE IF blank THEN ErrorValue
  ELSE IF extract_market_skills(TRUE, column, MarketSkillsN).result = <<>>
    THEN ErrorValue
  ELSE LET parsed == ParsedReply[raw]
       IN  IF parsed.raised # "" THEN ErrorValue
           ELSE skill_gap_result(parsed.value)

SalaryKeys == <<"min_salary", "max_salary", "median_salary">>

\* lines 463-469: the numeric fields, from the k-th key on
RECURSIVE validate_salaries(_, _, _)
validate_salaries(result, k, ints) ==
  IF k > Len(SalaryKeys) THEN [raised |-> "", error |-> FALSE, ints |-> ints]
  ELSE IF result.t \notin {"dict", "list", "str"}
    THEN [raised |-> "TypeError", error |-> FALSE, ints |-> ints]
  ELSE IF ~HasKey(result, SalaryKeys[k])
    THEN [raised |-> "", error |-> TRUE, ints |-> ints]
  ELSE IF result.t # "dict"
    THEN [raised |-> "", error |-> TRUE, ints |-> ints]
  ELSE LET i == int_of(result.fields[SalaryKeys[k]])
       IN  IF i.raised \in {"ValueError", "TypeError"}
             THEN [raised |-> "", error |-> TRUE, ints |-> ints]
           ELSE IF i.raised # ""
             THEN [raised |-> i.raised, error |-> FALSE, ints |-> ints]
           ELSE validate_salaries(result, k + 1, ints @@ (SalaryKeys[k] :> i.n))

Max(a, b) == IF a >= b THEN a ELSE b

ordered_salaries_as_replied(ints) ==
  ints

\* lines 472-473: "Ensure logical ordering"
ordered_salaries(ints) ==
  [ints EXCEPT
     !["min_salary"] = Min(ints["min_salary"], ints["median_salary"]),
     !["max_salary"] = Max(ints["max_salary"], ints["median_salary"])]

\* lines 351-490; blank is `not job_title.strip()`
estimate_salary(blank, raw) ==
  IF blank THEN ErrorValue
  ELSE LET parsed == ParsedReply[raw]
       IN  IF parsed.raised # "" THEN ErrorValue
           ELSE LET v == validate_salaries(parsed.value, 1, <<>>)
                IN  IF v.raised # "" THEN Raised(v.raised)
                    ELSE IF v.error THEN ErrorValue
                    ELSE LET s == ordered_salaries(v.ints)
                         IN  [raised |-> "", error |-> FALSE,
                              replied |-> v.ints,
                              min_salary    |-> s["min_salary"],
                              max_salary    |-> s["max_salary"],
                              median_salary |-> s["median_salary"]]

\* the skills columns the corpus has when a reply arrives
LlmCells == { Null, <<"P", "y", "t", "h", "o", "n", ",", " ", "S", "Q", "L">>, <<"n", "a", "n">> }

InitLlm ==
  /\ ScraperUnused
  /\ pc = "call"
  /\ inp \in [ raw : LlmReplies, blank : BOOLEAN,
               skills : SeqsUpTo(LlmCells, MaxRows) ]
  /\ out = <<>>

GenerateJobRecommendations ==
  /\ pc = "call"
  /\ out' = [op |-> "generate_job_recommendations"] @@
            generate_job_recommendations(Len(inp.skills), inp.raw)
  /\ pc' = "return"
  /\ UNCHANGED inp
  /\ UNCHANGED scraperVars

AnalyzeSkillGap ==
  /\ pc = "call"
  /\ out' = [op |-> "analyze_skill_gap"] @@
            analyze_skill_gap(inp.blank, inp.skills, inp.raw)
  /\ pc' = "return"
  /\ UNCHANGED inp
  /\ UNCHANGED scraperVars

EstimateSalary ==
  /\ pc = "call"
  /\ out' = [op |-> "estimate_salary"] @@ estimate_salary(inp.blank, inp.raw)
  /\ pc' = "return"
  /\ UNCHANGED inp
  /\ UNCHANGED scraperVars

NextLlm == GenerateJobRecommendations \/ AnalyzeSkillGap \/ EstimateSalary

SpecLlm == InitLlm /\ [][NextLlm]_vars

(* C27: every failure of one of the three assistant functions comes back as a
   value carrying an error message; no exception leaves them. *)
C27_NoExceptionLeaves ==
  pc = "return" => out.raised = ""

\* a well-formed JSON reply of an unexpected shape was handled by each function
C27_Witness ==
  /\ pc = "return"
  /\ out.op = "estimate_salary"
  /\ ~inp.blank
  /\ ParsedReply[inp.raw].raised = ""
  /\ ParsedReply[inp.raw].value.t = "int"
  /\ out.raised = "TypeError"

(* C30: a salary estimate that is not an error has
   min_salary <= median_salary <= max_salary, whatever the reply said. *)
C30_SalaryOrdered ==
  (pc = "return" /\ out.op = "estimate_salary" /\ out.raised = "" /\ ~out.error)
    => /\ out.min_salary <= out.median_salary
       /\ out.median_salary <= out.max_salary

\* the reply's own figures were out of order
C30_Witness ==
  /\ pc = "return"
  /\ out.op = "estimate_salary"
  /\ out.raised = ""
  /\ ~out.error
  /\ out.replied["min_salary"] > out.replied["median_salary"]
  /\ out.replied["max_salary"] < out.replied["median_salary"]

(***************************************************************************)
(* The persisted corpus over the runs of the scraper                       *)
(***************************************************************************)
(* C28: the sheet starts with no two rows sharing an identity key; then after
   any number of runs, over any fetched batches and with any pages failing,
   no two rows of the sheet share the lowercase title|company key. *)
C28_CorpusKeysUnique ==
  \A i, j \in 2 .. Len(sheet) :
    i # j => IdentityKey(sheet[i][1], sheet[i][2])
               # IdentityKey(sheet[j][1], sheet[j][2])

\* two runs are over; the last one added rows and dropped a posting whose
\* key the sheet already held
C28_Witness ==
  /\ pc = "idle"
  /\ run >= 2
  /\ new_rows # <<>>
  /\ Len(sheet) >= 3
  /\ \E i \in ValidObjs :
       /\ ~Kept(i)
       /\ \E k \in 2 .. (Len(sheet) - Len(new_rows)) :
            IdentityKey(sheet[k][1], sheet[k][2]) = KeyOfObj(i)

(***************************************************************************)
(* The counts of a company profile                                         *)
(***************************************************************************)
(* C29: in every result of get_company_intel without an error, trend_delta is
   not negative and is the absolute difference of recent_count and
   prev_count (prev_count - recent_count for "down", 0 for "stable" and
   "unknown"), and recent_count + prev_count is at most total_openings. *)
C29_DeltaIsMagnitude ==
  (pc = "return" /\ ~out.error) =>
    /\ out.trend_delta >= 0
    /\ out.trend_delta = IF out.recent_count >= out.prev_count
                           THEN out.recent_count - out.prev_count
                           ELSE out.prev_count - out.recent_count
    /\ out.trend = "down" => out.trend_delta = out.prev_count - out.recent_count
    /\ out.trend \in {"stable", "unknown"} => out.trend_delta = 0
    /\ out.recent_count + out.prev_count <= out.total_openings

\* the company posted in both weeks, less in the recent one
C29_Witness ==
  /\ pc = "return"
  /\ ~out.error
  /\ inp.has_dates
  /\ out.trend = "down"
  /\ out.recent_count > 0
  /\ out.prev_count > out.recent_count

====
